---- MODULE Spec2Model ----
(***************************************************************************)
(* RBAC authorization engine and JWT authentication lifecycle of the       *)
(* Express + Prisma backend template: AuthService / AuthRepository,        *)
(* RoleService / RoleRepository, the jwt.config token helpers, the         *)
(* password utilities and the authentication / permission middlewares.     *)
(*                                                                         *)
(* Every service call is one atomic action (its awaits are not interleaved *)
(* here).  Time is counted in whole seconds, the resolution of a JWT's iat *)
(* and exp.  crypto.randomBytes(32) is modelled as a fresh value.          *)
(***************************************************************************)
EXTENDS Integers, Sequences, FiniteSets, TLC

VARIABLES users, nextUserId, roles, nextRoleId, perms, rolePerms,
          now, ticks, nextResetToken, known, req, res,
          rotated, consumed, pwChanged, calls

vars == <<users, nextUserId, roles, nextRoleId, perms, rolePerms,
          now, ticks, nextResetToken, known, req, res,
          rotated, consumed, pwChanged, calls>>

dbVars == <<users, nextUserId, roles, nextRoleId, perms, rolePerms>>

(***************************************************************************)
(* Bounds                                                                  *)
(***************************************************************************)
MaxUserId == 2
MaxRoleId == 3
MaxTicks == 2
MaxResetTokens == 2
MaxKnown == 2
MaxCalls == 2

UserIds == 1..MaxUserId
RoleIds == 1..MaxRoleId

(***************************************************************************)
(* Program constants                                                       *)
(***************************************************************************)
ACCESS_TOKEN_EXPIRES_IN == 900
REFRESH_TOKEN_EXPIRES_IN == 604800
RESET_TOKEN_EXPIRES_IN == 3600
DEFAULT_ROLE_ID == 2
MIN_PASSWORD_LENGTH == 8

ROLE_ADMIN == "admin"
ROLE_USER == "user"

ADMIN_EMAIL == "admin@example.com"
ADMIN_PASSWORD == <<"A", "d", "m", "i", "n", "1", "2", "3", "!", "@", "#">>

PERMISSIONS == <<"users.read", "users.create", "users.update", "users.delete",
                 "users.manage", "roles.read", "roles.create", "roles.update",
                 "roles.delete", "roles.manage", "permissions.read",
                 "permissions.manage", "admin.access">>

DEFAULT_ROLE_PERMISSIONS ==
  [r \in {ROLE_ADMIN, ROLE_USER} |->
     IF r = ROLE_ADMIN
     THEN {"admin.access", "users.manage", "roles.manage", "permissions.manage"}
     ELSE {"users.read"}]

PermIds == 1..Len(PERMISSIONS)

(***************************************************************************)
(* Inputs                                                                  *)
(***************************************************************************)
StrongPw == <<"S", "t", "r", "0", "n", "g", "!", "P", "w">>
WeakPw == <<"a", "b", "c">>
EmptyPw == <<>>

UpperChars == {"A", "B", "C", "D", "E", "F", "G", "H", "I", "J", "K", "L", "M",
               "N", "O", "P", "Q", "R", "S", "T", "U", "V", "W", "X", "Y", "Z"}
LowerChars == {"a", "b", "c", "d", "e", "f", "g", "h", "i", "j", "k", "l", "m",
               "n", "o", "p", "q", "r", "s", "t", "u", "v", "w", "x", "y", "z"}
DigitChars == {"0", "1", "2", "3", "4", "5", "6", "7", "8", "9"}
SpecialChars == {"!", "@", "#", "$", "%", "^", "&", "*", "(", ")", ",", ".",
                 "?", "\"", ":", "{", "}", "|", "<", ">"}

(***************************************************************************)
(* Values                                                                  *)
(***************************************************************************)
NullToken == [userId |-> 0, email |-> "", role |-> "", iat |-> 0, exp |-> 0,
              sig |-> FALSE]

NullResetToken == 0
EmptyResetInput == -1
UnknownResetToken == 1000

NoHash == <<>>

NoUser == [exists |-> FALSE, email |-> "", password |-> NoHash,
           isActive |-> FALSE, roleId |-> 0, refreshToken |-> NullToken,
           passwordResetToken |-> NullResetToken, passwordResetExpires |-> 0]

NoRole == [exists |-> FALSE, name |-> "", isActive |-> FALSE]

(* a permission id no row holds *)
NoPerm == [name |-> "", isActive |-> FALSE]

NoIdentity == [id |-> 0, email |-> "", role |-> "", roleId |-> 0]

NoRes == [op |-> "init", kind |-> "", msg |-> "", uid |-> 0,
          tokIn |-> NullToken, access |-> NullToken, refresh |-> NullToken,
          resetIn |-> 0, roleId |-> 0, next |-> FALSE]

Thrown(kind, msg) == [kind |-> kind, msg |-> msg]

OK == Thrown("OK", "")

MSG_INVALID_CREDENTIALS == "Email o contrasena invalidos"
MSG_ACCOUNT_DISABLED == "La cuenta esta desactivada"
MSG_FORGOT == "Si existe una cuenta con ese email, se ha enviado un enlace para restablecer la contrasena."
MSG_FORGOT_SENT == "Si existe una cuenta con ese email, se ha enviado un enlace para restablecer la contrasena."
MSG_RESET_INVALID == "Token de restablecimiento invalido o expirado"

(***************************************************************************)
(* Password utilities                                                      *)
(***************************************************************************)
HasChar(password, chars) == \E i \in 1..Len(password) : password[i] \in chars

validatePasswordStrength(password) ==
  IF Len(password) < MIN_PASSWORD_LENGTH
    THEN "Password must be at least 8 characters long"
  ELSE IF ~HasChar(password, UpperChars)
    THEN "Password must contain at least one uppercase letter"
  ELSE IF ~HasChar(password, LowerChars)
    THEN "Password must contain at least one lowercase letter"
  ELSE IF ~HasChar(password, DigitChars)
    THEN "Password must contain at least one number"
  ELSE IF ~HasChar(password, SpecialChars)
    THEN "Password must contain at least one special character"
  ELSE "valid"

hashPassword(password) == <<"argon2id", password>>

comparePassword(password, hash) ==
  /\ Len(hash) = 2
  /\ hash[1] = "argon2id"
  /\ hash[2] = password

Trim(email) == IF email = " " THEN "" ELSE email

(***************************************************************************)
(* Token service (jwt.config)                                              *)
(***************************************************************************)
Sign(userId, email, role, ttl) ==
  [userId |-> userId, email |-> email, role |-> role, iat |-> now,
   exp |-> now + ttl, sig |-> TRUE]

generateAccessToken(userId, email, role) ==
  Sign(userId, email, role, ACCESS_TOKEN_EXPIRES_IN)

generateRefreshToken(userId, email, role) ==
  Sign(userId, email, role, REFRESH_TOKEN_EXPIRES_IN)

(* verification that still accepts a token in the second it expires *)
verifyTokenLate(token) ==
  IF ~token.sig THEN "Invalid token"
  ELSE IF now > token.exp THEN "Token expired"
  ELSE "ok"

(* the payload jwt.verify returns, without iat and exp *)
decoded(token) ==
  [userId |-> token.userId, email |-> token.email, role |-> token.role]

verifyToken(token) ==
  IF ~token.sig THEN "Invalid token"
  ELSE IF now >= token.exp THEN "Token expired"
  ELSE "ok"

Tamper(token) == [token EXCEPT !.role = ROLE_ADMIN, !.sig = FALSE]

(***************************************************************************)
(* Clients: every token pair issued so far is still around and can be      *)
(* presented again, as issued or with the payload altered.  A pair shares  *)
(* its payload and iat, so the refresh token stands for the pair.  The     *)
(* number of distinct pairs issued in a run is capped at MaxKnown.         *)
(***************************************************************************)
AccessOf(refresh) ==
  [refresh EXCEPT !.exp = refresh.iat + ACCESS_TOKEN_EXPIRES_IN]

CanIssue(refresh) == refresh \in known \/ Cardinality(known) < MaxKnown

RefreshInputs == known \cup {Tamper(t) : t \in known} \cup {NullToken}

TokenInputs == RefreshInputs \cup {AccessOf(t) : t \in known}

(***************************************************************************)
(* AuthRepository                                                          *)
(***************************************************************************)
findByEmail(email) ==
  IF \E u \in UserIds : users[u].exists /\ users[u].email = email
  THEN CHOOSE u \in UserIds : users[u].exists /\ users[u].email = email
  ELSE 0

findById(id) == IF id \in UserIds /\ users[id].exists THEN id ELSE 0

emailExists(email) == findByEmail(email) # 0

create(us, id, email, hashedPassword, roleId) ==
  [us EXCEPT ![id] = [exists |-> TRUE, email |-> email,
                      password |-> hashedPassword, isActive |-> TRUE,
                      roleId |-> IF roleId # 0 THEN roleId ELSE DEFAULT_ROLE_ID,
                      refreshToken |-> NullToken,
                      passwordResetToken |-> NullResetToken,
                      passwordResetExpires |-> 0]]

updateRefreshToken(us, userId, refreshToken) ==
  [us EXCEPT ![userId].refreshToken = refreshToken]

(* the update skipped when the row already holds a token *)
updatePasswordResetTokenKeepsFirst(us, userId, token, expiresAt) ==
  IF us[userId].passwordResetToken # NullResetToken THEN us
  ELSE [us EXCEPT ![userId].passwordResetToken = token,
                  ![userId].passwordResetExpires = expiresAt]

updatePasswordResetToken(us, userId, token, expiresAt) ==
  [us EXCEPT ![userId].passwordResetToken = token,
             ![userId].passwordResetExpires = expiresAt]

(* the lookup with its expiry filter relaxed from gt to gte *)
ResetTokenMatchesAtExpiry(u, token) ==
  /\ users[u].exists
  /\ users[u].passwordResetToken # NullResetToken
  /\ users[u].passwordResetToken = token
  /\ users[u].passwordResetExpires >= now

ResetTokenMatches(u, token) ==
  /\ users[u].exists
  /\ users[u].passwordResetToken # NullResetToken
  /\ users[u].passwordResetToken = token
  /\ users[u].passwordResetExpires > now

findByPasswordResetToken(token) ==
  IF \E u \in UserIds : ResetTokenMatches(u, token)
  THEN CHOOSE u \in UserIds : ResetTokenMatches(u, token)
  ELSE 0

(* updatePassword leaving the reset token fields as they are *)
updatePasswordKeepsResetToken(us, userId, hashedPassword) ==
  [us EXCEPT ![userId].password = hashedPassword]

updatePassword(us, userId, hashedPassword) ==
  [us EXCEPT ![userId].password = hashedPassword,
             ![userId].passwordResetToken = NullResetToken,
             ![userId].passwordResetExpires = 0]

(* user.role?.name || 'user' *)
RoleNameOf(u) ==
  IF roles[users[u].roleId].name # "" THEN roles[users[u].roleId].name
  ELSE ROLE_USER

(***************************************************************************)
(* AuthService: the checks of each operation, in the order of the code.    *)
(* Each yields the error thrown, or OK when the operation goes through.    *)
(***************************************************************************)
registerResult(email, password) ==
  IF email = "" \/ Trim(email) = ""
    THEN Thrown("BadRequest", "El email es requerido")
  ELSE IF validatePasswordStrength(password) # "valid"
    THEN Thrown("BadRequest", validatePasswordStrength(password))
  ELSE IF emailExists(email)
    THEN Thrown("Conflict", "Ya existe un usuario con este email")
  ELSE OK

loginResult(email, password) ==
  LET u == findByEmail(email) IN
  IF email = "" \/ password = EmptyPw
    THEN Thrown("BadRequest", "El email y la contrasena son requeridos")
  ELSE IF u = 0
    THEN Thrown("Unauthorized", MSG_INVALID_CREDENTIALS)
  ELSE IF ~users[u].isActive
    THEN Thrown("Forbidden", MSG_ACCOUNT_DISABLED)
  ELSE IF ~comparePassword(password, users[u].password)
    THEN Thrown("Unauthorized", MSG_INVALID_CREDENTIALS)
  ELSE OK

refreshTokenResult(token) ==
  LET u == findById(token.userId) IN
  IF token = NullToken
    THEN Thrown("BadRequest", "El token de refresco es requerido")
  ELSE IF verifyToken(token) # "ok"
    THEN Thrown("Unauthorized", "Token de refresco invalido o expirado")
  ELSE IF u = 0
    THEN Thrown("NotFound", "Usuario no encontrado")
  ELSE IF ~users[u].isActive
    THEN Thrown("Forbidden", MSG_ACCOUNT_DISABLED)
  ELSE IF users[u].refreshToken # token
    THEN Thrown("Unauthorized", "Token de refresco invalido")
  ELSE OK

(* forgotPassword answering an unknown email with an error *)
forgotPasswordResultReveals(email) ==
  IF email = "" THEN Thrown("BadRequest", "El email es requerido")
  ELSE IF findByEmail(email) = 0 THEN Thrown("NotFound", "Usuario no encontrado")
  ELSE Thrown("OK", MSG_FORGOT_SENT)

forgotPasswordResult(email) ==
  IF email = "" THEN Thrown("BadRequest", "El email es requerido")
  ELSE IF findByEmail(email) = 0 THEN Thrown("OK", MSG_FORGOT)
  ELSE Thrown("OK", MSG_FORGOT_SENT)

resetPasswordResult(token, password) ==
  IF token = EmptyResetInput \/ password = EmptyPw
    THEN Thrown("BadRequest", "El token y la contrasena son requeridos")
  ELSE IF validatePasswordStrength(password) # "valid"
    THEN Thrown("BadRequest", validatePasswordStrength(password))
  ELSE IF findByPasswordResetToken(token) = 0
    THEN Thrown("BadRequest", MSG_RESET_INVALID)
  ELSE Thrown("OK", "La contrasena ha sido restablecida exitosamente")

(* findByEmailWithPassword((await findById(userId))?.email || '') *)
changePasswordUser(userId) ==
  findByEmail(IF findById(userId) # 0 THEN users[userId].email ELSE "")

(* changePassword without its validatePasswordStrength check *)
changePasswordResultSkipsStrength(userId, currentPassword, newPassword) ==
  LET u == changePasswordUser(userId) IN
  IF currentPassword = EmptyPw \/ newPassword = EmptyPw
    THEN Thrown("BadRequest",
                "La contrasena actual y la nueva contrasena son requeridas")
  ELSE IF u = 0
    THEN Thrown("NotFound", "Usuario no encontrado")
  ELSE IF ~comparePassword(currentPassword, users[u].password)
    THEN Thrown("Unauthorized", "La contrasena actual es incorrecta")
  ELSE Thrown("OK", "La contrasena ha sido cambiada exitosamente")

changePasswordResult(userId, currentPassword, newPassword) ==
  LET u == changePasswordUser(userId) IN
  IF currentPassword = EmptyPw \/ newPassword = EmptyPw
    THEN Thrown("BadRequest",
                "La contrasena actual y la nueva contrasena son requeridas")
  ELSE IF validatePasswordStrength(newPassword) # "valid"
    THEN Thrown("BadRequest", validatePasswordStrength(newPassword))
  ELSE IF u = 0
    THEN Thrown("NotFound", "Usuario no encontrado")
  ELSE IF ~comparePassword(currentPassword, users[u].password)
    THEN Thrown("Unauthorized", "La contrasena actual es incorrecta")
  ELSE Thrown("OK", "La contrasena ha sido cambiada exitosamente")

(* logout refusing a user who holds no refresh token *)
logoutResultNeedsSession(userId) ==
  IF findById(userId) = 0
    THEN Thrown("InternalError", "Record to update not found")
  ELSE IF users[userId].refreshToken = NullToken
    THEN Thrown("Unauthorized", "No hay sesion activa")
  ELSE Thrown("OK", "Sesion cerrada exitosamente")

logoutResult(userId) ==
  IF findById(userId) = 0
    THEN Thrown("InternalError", "Record to update not found")
  ELSE Thrown("OK", "Sesion cerrada exitosamente")

(***************************************************************************)
(* AuthService: the operations                                             *)
(***************************************************************************)
authOnly == <<nextUserId, roles, nextRoleId, perms, rolePerms, now, ticks,
              nextResetToken, req, rotated, consumed, pwChanged>>

(* a call that runs to its end in one step answers, and leaves the calls
   that are in flight where they are *)
Answer(op, result, r) ==
  /\ res' = [r EXCEPT !.op = op, !.kind = result.kind, !.msg = result.msg]
  /\ UNCHANGED calls

(* a failing call that ends every session on its way out *)
FailEndsSessions(op, result, r) ==
  /\ Answer(op, result, r)
  /\ users' = [u \in UserIds |-> [users[u] EXCEPT !.refreshToken = NullToken]]
  /\ UNCHANGED <<known, authOnly>>

(* every throw of the orchestrator comes before its first write *)
Fail(op, result, r) ==
  /\ Answer(op, result, r)
  /\ UNCHANGED <<users, known, authOnly>>

Register(email, password) ==
  LET result == registerResult(email, password)
      id == nextUserId
      created == create(users, id, email, hashPassword(password), 0)
      roleName == IF roles[created[id].roleId].name # ""
                  THEN roles[created[id].roleId].name ELSE ROLE_USER
      access == generateAccessToken(id, email, roleName)
      refresh == generateRefreshToken(id, email, roleName)
  IN
  IF result.kind # "OK" THEN Fail("register", result, NoRes)
  ELSE /\ id <= MaxUserId
       /\ roles[DEFAULT_ROLE_ID].exists
       /\ CanIssue(refresh)
       /\ users' = updateRefreshToken(created, id, refresh)
       /\ nextUserId' = nextUserId + 1
       /\ known' = known \cup {refresh}
       /\ pwChanged' = pwChanged \ {id}
       /\ Answer("register", result,
                 [NoRes EXCEPT !.uid = id, !.access = access,
                               !.refresh = refresh])
       /\ UNCHANGED <<roles, nextRoleId, perms, rolePerms, now, ticks,
                      nextResetToken, req, rotated, consumed>>

(***************************************************************************)
(* register as the two database round trips that decide it: the awaited    *)
(* emailExists query, and later the awaited INSERT.  Another call may run  *)
(* between the two.  User.email is a unique column, so the INSERT of a     *)
(* held email is rejected by the database; register catches nothing, and   *)
(* the error that reaches the controller carries no statusCode.            *)
(***************************************************************************)
Procs == 1..MaxCalls

(* a call in flight: what it read and computed before its next await, and
   `pc`, the number of awaited database round trips it has completed.
   `peers` are the calls for the same user that were in flight with it,
   `before` is the user row as it was when the call made its first write,
   `old` the permission ids the role had when the call deleted them,
   `returned` marks a call that has returned to its caller. *)
NoCall == [op |-> "idle", pc |-> 0, email |-> "", password |-> NoHash,
           uid |-> 0, tokIn |-> NullToken, refresh |-> NullToken,
           peers |-> {}, resetIn |-> 0, roleId |-> 0, permissionIds |-> {},
           before |-> NoUser, old |-> {}, returned |-> FALSE]

MSG_UNIQUE_EMAIL == "Unique constraint failed on the fields: (email)"

registerCheck(p, email, password) ==
  LET result == registerResult(email, password) IN
  /\ calls[p].op = "idle"
  /\ IF result.kind # "OK"
       THEN Fail("register", result, NoRes)
     ELSE /\ calls' = [calls EXCEPT ![p] =
                         [NoCall EXCEPT !.op = "register", !.pc = 1,
                                        !.email = email,
                                        !.password = hashPassword(password)]]
          /\ UNCHANGED <<users, known, authOnly, res>>

registerCreate(p) ==
  LET email == calls[p].email
      id == nextUserId
      created == create(users, id, email, calls[p].password, 0)
      roleName == IF roles[created[id].roleId].name # ""
                  THEN roles[created[id].roleId].name ELSE ROLE_USER
      refresh == generateRefreshToken(id, email, roleName)
  IN
  /\ calls[p].op = "register"
  /\ calls[p].pc = 1
  /\ IF emailExists(email)
       THEN /\ calls' = [calls EXCEPT ![p] = NoCall]
            /\ res' = [NoRes EXCEPT !.op = "register", !.kind = "InternalError",
                                    !.msg = MSG_UNIQUE_EMAIL]
            /\ UNCHANGED <<users, known, authOnly>>
     ELSE /\ id <= MaxUserId
          /\ roles[DEFAULT_ROLE_ID].exists
          /\ users' = created
          /\ nextUserId' = nextUserId + 1
          /\ calls' = [calls EXCEPT ![p].pc = 2, ![p].uid = id,
                                    ![p].refresh = refresh]
          /\ UNCHANGED <<roles, nextRoleId, perms, rolePerms, now, ticks,
                         nextResetToken, req, rotated, consumed, known,
                         pwChanged, res>>

(* the flow undoing its first write when the second fails *)
failedSecondWriteRollsBack(us, c) == [us EXCEPT ![c.uid] = c.before]

(* no transaction spans the two writes of a flow and nothing catches the
   error of the second: the rows stay as the first write left them *)
failedSecondWrite(us, c) == us

(* register: await updateRefreshToken(user.id, tokens.refreshToken); return.
   `fails` is the database rejecting or losing this write. *)
registerStore(p, fails) ==
  LET c == calls[p] IN
  /\ c.op = "register"
  /\ c.pc = 2
  /\ calls' = [calls EXCEPT ![p] = NoCall]
  /\ UNCHANGED <<nextUserId, roles, nextRoleId, perms, rolePerms, now, ticks,
                 nextResetToken, req, rotated, consumed>>
  /\ IF fails \/ findById(c.uid) = 0
       THEN /\ users' = failedSecondWrite(users, c)
            /\ res' = [NoRes EXCEPT !.op = "register", !.kind = "InternalError",
                                    !.msg = "Record to update not found",
                                    !.uid = c.uid]
            /\ UNCHANGED <<known, pwChanged>>
     ELSE /\ CanIssue(c.refresh)
          /\ users' = updateRefreshToken(users, c.uid, c.refresh)
          /\ known' = known \cup {c.refresh}
          /\ pwChanged' = pwChanged \ {c.uid}
          /\ res' = [NoRes EXCEPT !.op = "register", !.kind = "OK",
                                  !.uid = c.uid,
                                  !.access = AccessOf(c.refresh),
                                  !.refresh = c.refresh]

Login(email, password) ==
  LET result == loginResult(email, password)
      u == findByEmail(email)
      roleName == RoleNameOf(u)
      access == generateAccessToken(u, users[u].email, roleName)
      refresh == generateRefreshToken(u, users[u].email, roleName)
  IN
  IF result.kind # "OK" THEN Fail("login", result, NoRes)
  ELSE /\ CanIssue(refresh)
       /\ users' = updateRefreshToken(users, u, refresh)
       /\ known' = known \cup {refresh}
       /\ pwChanged' = pwChanged \ {u}
       /\ Answer("login", result,
                 [NoRes EXCEPT !.uid = u, !.access = access,
                               !.refresh = refresh])
       /\ UNCHANGED <<nextUserId, roles, nextRoleId, perms, rolePerms, now,
                      ticks, nextResetToken, req, rotated, consumed>>

RefreshToken(token) ==
  LET result == refreshTokenResult(token)
      r == [NoRes EXCEPT !.tokIn = token, !.uid = token.userId]
      u == findById(token.userId)
      roleName == RoleNameOf(u)
      access == generateAccessToken(u, users[u].email, roleName)
      refresh == generateRefreshToken(u, users[u].email, roleName)
  IN
  IF result.kind # "OK" THEN Fail("refresh", result, r)
  ELSE /\ CanIssue(refresh)
       /\ users' = updateRefreshToken(users, u, refresh)
       /\ known' = known \cup {refresh}
       /\ rotated' = rotated \cup {token}
       /\ Answer("refresh", result,
                 [r EXCEPT !.access = access, !.refresh = refresh])
       /\ UNCHANGED <<nextUserId, roles, nextRoleId, perms, rolePerms, now,
                      ticks, nextResetToken, req, consumed, pwChanged>>

(***************************************************************************)
(* login and refreshToken as their two database round trips: the awaited   *)
(* read of the user, after which the checks run and the tokens are         *)
(* generated, and the awaited updateRefreshToken, after which the call     *)
(* returns.  A call that returned stays recorded until the process starts  *)
(* its next call.                                                          *)
(***************************************************************************)
Free(p) == calls[p].op = "idle" \/ calls[p].returned

InFlightFor(u) ==
  {q \in Procs : /\ calls[q].op \in {"login", "refresh"}
                 /\ ~calls[q].returned
                 /\ calls[q].uid = u}

Started(p, c) ==
  calls' = [q \in Procs |->
              IF q = p THEN [c EXCEPT !.peers = InFlightFor(c.uid) \ {p}]
              ELSE IF q \in InFlightFor(c.uid)
                THEN [calls[q] EXCEPT !.peers = @ \cup {p}]
              ELSE calls[q]]

loginCheck(p, email, password) ==
  LET result == loginResult(email, password)
      u == findByEmail(email)
      refresh == generateRefreshToken(u, users[u].email, RoleNameOf(u))
  IN
  /\ Free(p)
  /\ IF result.kind # "OK" THEN Fail("login", result, NoRes)
     ELSE /\ Started(p, [NoCall EXCEPT !.op = "login", !.uid = u,
                                       !.refresh = refresh])
          /\ UNCHANGED <<users, known, authOnly, res>>

refreshTokenCheck(p, token) ==
  LET result == refreshTokenResult(token)
      u == findById(token.userId)
      refresh == generateRefreshToken(u, users[u].email, RoleNameOf(u))
  IN
  /\ Free(p)
  /\ IF result.kind # "OK"
       THEN Fail("refresh", result,
                 [NoRes EXCEPT !.tokIn = token, !.uid = token.userId])
     ELSE /\ Started(p, [NoCall EXCEPT !.op = "refresh", !.uid = u,
                                       !.tokIn = token, !.refresh = refresh])
          /\ UNCHANGED <<users, known, authOnly, res>>

(* await updateRefreshToken(user.id, tokens.refreshToken); return tokens *)
storeRefreshToken(p) ==
  LET c == calls[p] IN
  /\ c.op \in {"login", "refresh"}
  /\ ~c.returned
  /\ UNCHANGED <<nextUserId, roles, nextRoleId, perms, rolePerms, now, ticks,
                 nextResetToken, req, consumed>>
  /\ IF findById(c.uid) = 0
       THEN /\ calls' = [calls EXCEPT ![p] = NoCall]
            /\ res' = [NoRes EXCEPT !.op = c.op, !.kind = "InternalError",
                                    !.msg = "Record to update not found",
                                    !.uid = c.uid, !.tokIn = c.tokIn]
            /\ UNCHANGED <<users, known, rotated, pwChanged>>
     ELSE /\ CanIssue(c.refresh)
          /\ users' = updateRefreshToken(users, c.uid, c.refresh)
          /\ known' = known \cup {c.refresh}
          /\ rotated' = IF c.op = "refresh" THEN rotated \cup {c.tokIn}
                        ELSE rotated
          /\ pwChanged' = IF c.op = "login" THEN pwChanged \ {c.uid}
                          ELSE pwChanged
          /\ calls' = [calls EXCEPT ![p].returned = TRUE]
          /\ res' = [NoRes EXCEPT !.op = c.op, !.kind = "OK", !.uid = c.uid,
                                  !.tokIn = c.tokIn,
                                  !.access = AccessOf(c.refresh),
                                  !.refresh = c.refresh]

ForgotPassword(email) ==
  LET result == forgotPasswordResult(email)
      u == findByEmail(email)
      resetToken == nextResetToken
      resetExpires == now + RESET_TOKEN_EXPIRES_IN
  IN
  IF result.kind # "OK" \/ u = 0 THEN Fail("forgot", result, NoRes)
  ELSE /\ nextResetToken <= MaxResetTokens
       /\ users' = updatePasswordResetToken(users, u, resetToken, resetExpires)
       /\ nextResetToken' = nextResetToken + 1
       /\ Answer("forgot", result, [NoRes EXCEPT !.uid = u])
       /\ UNCHANGED <<nextUserId, roles, nextRoleId, perms, rolePerms, now,
                      ticks, known, req, rotated, consumed, pwChanged>>

ResetTokenInputs ==
  (1..(nextResetToken - 1)) \cup {EmptyResetInput, UnknownResetToken}

(* resetPassword without its updateRefreshToken(user.id, null) *)
resetPasswordKeepsSession(us, userId, password) ==
  updatePassword(us, userId, hashPassword(password))

(* resetPassword: updatePassword(user.id, hash), updateRefreshToken(user.id, null) *)
resetPasswordWrites(us, userId, password) ==
  updateRefreshToken(updatePassword(us, userId, hashPassword(password)),
                     userId, NullToken)

ResetPassword(token, password) ==
  LET result == resetPasswordResult(token, password)
      r == [NoRes EXCEPT !.resetIn = token]
      u == findByPasswordResetToken(token)
  IN
  IF result.kind # "OK" THEN Fail("reset", result, r)
  ELSE /\ users' = resetPasswordWrites(users, u, password)
       /\ consumed' = consumed \cup {token}
       /\ pwChanged' = pwChanged \cup {u}
       /\ Answer("reset", result, [r EXCEPT !.uid = u])
       /\ UNCHANGED <<nextUserId, roles, nextRoleId, perms, rolePerms, now,
                      ticks, nextResetToken, known, req, rotated>>

(* changePassword: updatePassword(user.id, hash), updateRefreshToken(user.id, null) *)
changePasswordWrites(us, userId, newPassword) ==
  updateRefreshToken(updatePassword(us, userId, hashPassword(newPassword)),
                     userId, NullToken)

ChangePassword(userId, currentPassword, newPassword) ==
  LET result == changePasswordResult(userId, currentPassword, newPassword)
      r == [NoRes EXCEPT !.uid = userId]
      u == changePasswordUser(userId)
  IN
  IF result.kind # "OK" THEN Fail("change", result, r)
  ELSE /\ users' = changePasswordWrites(users, u, newPassword)
       /\ pwChanged' = pwChanged \cup {u}
       /\ Answer("change", result, r)
       /\ UNCHANGED <<nextUserId, roles, nextRoleId, perms, rolePerms, now,
                      ticks, nextResetToken, known, req, rotated, consumed>>

(***************************************************************************)
(* resetPassword and changePassword as their database round trips: the     *)
(* awaited read of the user with the checks, the awaited updatePassword,   *)
(* and the awaited updateRefreshToken(user.id, null).                      *)
(***************************************************************************)
resetPasswordCheck(p, token, password) ==
  LET result == resetPasswordResult(token, password)
      u == findByPasswordResetToken(token)
  IN
  /\ Free(p)
  /\ IF result.kind # "OK"
       THEN Fail("reset", result, [NoRes EXCEPT !.resetIn = token])
     ELSE /\ calls' = [calls EXCEPT ![p] =
                         [NoCall EXCEPT !.op = "reset", !.pc = 1, !.uid = u,
                                        !.resetIn = token,
                                        !.password = hashPassword(password)]]
          /\ UNCHANGED <<users, known, authOnly, res>>

changePasswordCheck(p, userId, currentPassword, newPassword) ==
  LET result == changePasswordResult(userId, currentPassword, newPassword)
      u == changePasswordUser(userId)
  IN
  /\ Free(p)
  /\ IF result.kind # "OK"
       THEN Fail("change", result, [NoRes EXCEPT !.uid = userId])
     ELSE /\ calls' = [calls EXCEPT ![p] =
                         [NoCall EXCEPT !.op = "change", !.pc = 1, !.uid = u,
                                        !.password = hashPassword(newPassword)]]
          /\ UNCHANGED <<users, known, authOnly, res>>

(* await updatePassword(user.id, hashedPassword) *)
writePassword(p) ==
  LET c == calls[p] IN
  /\ c.op \in {"reset", "change"}
  /\ c.pc = 1
  /\ UNCHANGED <<nextUserId, roles, nextRoleId, perms, rolePerms, now, ticks,
                 nextResetToken, req, rotated, known>>
  /\ IF findById(c.uid) = 0
       THEN /\ calls' = [calls EXCEPT ![p] = NoCall]
            /\ res' = [NoRes EXCEPT !.op = c.op, !.kind = "InternalError",
                                    !.msg = "Record to update not found",
                                    !.uid = c.uid, !.resetIn = c.resetIn]
            /\ UNCHANGED <<users, consumed, pwChanged>>
     ELSE /\ users' = updatePassword(users, c.uid, c.password)
          /\ consumed' = IF c.op = "reset" THEN consumed \cup {c.resetIn}
                         ELSE consumed
          /\ pwChanged' = pwChanged \cup {c.uid}
          /\ calls' = [calls EXCEPT ![p].pc = 2, ![p].before = users[c.uid]]
          /\ UNCHANGED res

(* await updateRefreshToken(user.id, null); return { message }.
   `fails` is the database rejecting or losing this write. *)
clearRefreshToken(p, fails) ==
  LET c == calls[p] IN
  /\ c.op \in {"reset", "change"}
  /\ c.pc = 2
  /\ UNCHANGED <<authOnly, known>>
  /\ IF fails \/ findById(c.uid) = 0
       THEN /\ users' = failedSecondWrite(users, c)
            /\ calls' = [calls EXCEPT ![p] = NoCall]
            /\ res' = [NoRes EXCEPT !.op = c.op, !.kind = "InternalError",
                                    !.msg = "Record to update not found",
                                    !.uid = c.uid, !.resetIn = c.resetIn]
     ELSE /\ users' = updateRefreshToken(users, c.uid, NullToken)
          /\ calls' = [calls EXCEPT ![p].returned = TRUE]
          /\ res' = [NoRes EXCEPT !.op = c.op, !.kind = "OK", !.uid = c.uid,
                                  !.resetIn = c.resetIn]

Logout(userId) ==
  LET result == logoutResult(userId)
      r == [NoRes EXCEPT !.uid = userId]
  IN
  IF result.kind # "OK" THEN Fail("logout", result, r)
  ELSE /\ users' = updateRefreshToken(users, userId, NullToken)
       /\ Answer("logout", result, r)
       /\ UNCHANGED <<authOnly, known>>

(***************************************************************************)
(* RoleRepository / PermissionRepository                                   *)
(***************************************************************************)
roleFindById(id) == IF id \in RoleIds /\ roles[id].exists THEN id ELSE 0

roleFindByName(name) ==
  IF \E r \in RoleIds : roles[r].exists /\ roles[r].name = name
  THEN CHOOSE r \in RoleIds : roles[r].exists /\ roles[r].name = name
  ELSE 0

roleCreate(rs, id, name) ==
  [rs EXCEPT ![id] = [exists |-> TRUE, name |-> name, isActive |-> TRUE]]

(* the replacement without its deleteMany *)
assignPermissionsKeepsOld(rp, roleId, permissionIds) ==
  rp \cup {<<roleId, p>> : p \in permissionIds}

assignPermissions(rp, roleId, permissionIds) ==
  {x \in rp : x[1] # roleId} \cup {<<roleId, p>> : p \in permissionIds}

roleUpdate(rs, id, data) ==
  [rs EXCEPT ![id].name = IF data.setName THEN data.name ELSE @,
             ![id].isActive = IF data.setActive THEN data.isActive ELSE @]

roleDelete(rs, id) == [rs EXCEPT ![id].isActive = FALSE]

(* hasPermission matching any active permission of the role *)
hasPermissionAnyName(roleId, permissionName) ==
  \E x \in rolePerms : x[1] = roleId /\ perms[x[2]].isActive

(* hasPermission letting "<resource>.manage" stand for every permission of
   the resource *)
hasPermissionByManage(roleId, permissionName) ==
  \E x \in rolePerms :
    /\ x[1] = roleId
    /\ perms[x[2]].isActive
    /\ \/ perms[x[2]].name = permissionName
       \/ \E q \in 1..4 : PERMISSIONS[q] = permissionName
                            /\ perms[x[2]].name = "users.manage"
       \/ \E q \in 6..9 : PERMISSIONS[q] = permissionName
                            /\ perms[x[2]].name = "roles.manage"

hasPermission(roleId, permissionName) ==
  \E x \in rolePerms :
    /\ x[1] = roleId
    /\ perms[x[2]].name = permissionName
    /\ perms[x[2]].isActive

permissionUpdate(ps, id, isActive) == [ps EXCEPT ![id].isActive = isActive]

(***************************************************************************)
(* RoleService                                                             *)
(***************************************************************************)
roleOnly == <<users, nextUserId, now, ticks, nextResetToken, known, req,
              rotated, consumed, pwChanged>>

createRoleResult(name) ==
  IF roleFindByName(name) # 0
    THEN Thrown("Conflict", "Role with this name already exists")
  ELSE OK

(* An update of the name to one another row holds is refused by the service *)
(* when data.name is truthy, and by the unique index on Role.name when the  *)
(* service skipped its check (data.name = ""), after the permission rows    *)
(* were replaced.                                                           *)
updateRoleResult(id, data) ==
  LET existing == roleFindByName(data.name) IN
  IF roleFindById(id) = 0 THEN Thrown("NotFound", "Role not found")
  ELSE IF data.setName /\ data.name # "" /\ existing # 0 /\ existing # id
    THEN Thrown("Conflict", "Role with this name already exists")
  ELSE IF data.setName /\ existing # 0 /\ existing # id
    THEN Thrown("InternalError", "Unique constraint failed")
  ELSE OK

deleteRoleResult(id) ==
  IF roleFindById(id) = 0 THEN Thrown("NotFound", "Role not found")
  ELSE IF roles[id].name = ROLE_ADMIN \/ roles[id].name = ROLE_USER
    THEN Thrown("BadRequest", "Cannot delete system roles")
  ELSE OK

userHasPermission(userId, permissionName) ==
  /\ findById(userId) # 0
  /\ roleFindById(users[userId].roleId) # 0
  /\ hasPermission(users[userId].roleId, permissionName)

createRole(name, permissionIds) ==
  LET result == createRoleResult(name) IN
  IF result.kind # "OK"
    THEN /\ Answer("createRole", result, NoRes)
         /\ UNCHANGED <<roles, nextRoleId, perms, rolePerms, roleOnly>>
  ELSE /\ nextRoleId <= MaxRoleId
       /\ roles' = roleCreate(roles, nextRoleId, name)
       /\ rolePerms' = rolePerms \cup {<<nextRoleId, p>> : p \in permissionIds}
       /\ nextRoleId' = nextRoleId + 1
       /\ Answer("createRole", result, [NoRes EXCEPT !.roleId = nextRoleId])
       /\ UNCHANGED <<perms, roleOnly>>

updateRole(id, data) ==
  LET result == updateRoleResult(id, data)
      r == [NoRes EXCEPT !.roleId = id]
      replaced == IF data.setPerms
                  THEN assignPermissions(rolePerms, id, data.permissionIds)
                  ELSE rolePerms
  IN
  /\ Answer("updateRole", result, r)
  /\ UNCHANGED <<nextRoleId, perms, roleOnly>>
  /\ IF result.kind = "OK"
       THEN /\ rolePerms' = replaced
            /\ roles' = roleUpdate(roles, id, data)
     ELSE IF result.kind = "InternalError"
       THEN /\ rolePerms' = replaced
            /\ UNCHANGED roles
     ELSE UNCHANGED <<roles, rolePerms>>

(***************************************************************************)
(* updateRole with permissionIds as its database round trips: the awaited  *)
(* reads of the service, the awaited rolePermission.deleteMany, and the    *)
(* awaited rolePermission.createMany followed by role.update and the       *)
(* return.  RoleRepository.assignPermissions is the same deleteMany and    *)
(* createMany.  The rolePermission rows are a set of (role, permission)    *)
(* pairs.                                                                  *)
(***************************************************************************)
updateRoleCheck(p, id, permissionIds) ==
  LET data == [setName |-> FALSE, name |-> "", setActive |-> FALSE,
               isActive |-> TRUE, setPerms |-> TRUE,
               permissionIds |-> permissionIds]
      result == updateRoleResult(id, data)
  IN
  /\ Free(p)
  /\ UNCHANGED <<roles, nextRoleId, perms, rolePerms, roleOnly>>
  /\ IF result.kind # "OK"
       THEN Answer("updateRole", result, [NoRes EXCEPT !.roleId = id])
     ELSE /\ calls' = [calls EXCEPT ![p] =
                         [NoCall EXCEPT !.op = "updateRole", !.pc = 1,
                                        !.roleId = id,
                                        !.permissionIds = permissionIds]]
          /\ UNCHANGED res

(* await db.rolePermission.deleteMany({ where: { roleId: id } }) *)
deleteMany(p) ==
  LET c == calls[p] IN
  /\ c.op = "updateRole"
  /\ c.pc = 1
  /\ rolePerms' = {x \in rolePerms : x[1] # c.roleId}
  /\ calls' = [calls EXCEPT ![p].pc = 2,
                            ![p].old = {x[2] : x \in {y \in rolePerms :
                                                       y[1] = c.roleId}}]
  /\ UNCHANGED <<roles, nextRoleId, perms, roleOnly, res>>

(* await db.rolePermission.createMany(...); return db.role.update(...) *)
createMany(p) ==
  LET c == calls[p] IN
  /\ c.op = "updateRole"
  /\ c.pc = 2
  /\ rolePerms' = rolePerms \cup {<<c.roleId, q>> : q \in c.permissionIds}
  /\ calls' = [calls EXCEPT ![p].returned = TRUE, ![p].pc = 3]
  /\ res' = [NoRes EXCEPT !.op = "updateRole", !.kind = "OK",
                          !.roleId = c.roleId]
  /\ UNCHANGED <<roles, nextRoleId, perms, roleOnly>>

(* RoleService.userHasPermission called on its own; the answer is res.next *)
userHasPermissionQuery(userId, permissionName) ==
  /\ Answer("userHasPermission", OK,
            [NoRes EXCEPT !.uid = userId, !.msg = permissionName,
                          !.next = userHasPermission(userId, permissionName)])
  /\ UNCHANGED <<roles, nextRoleId, perms, rolePerms, roleOnly>>

deleteRole(id) ==
  LET result == deleteRoleResult(id)
      r == [NoRes EXCEPT !.roleId = id]
  IN
  /\ Answer("deleteRole", result, r)
  /\ UNCHANGED <<nextRoleId, perms, rolePerms, roleOnly>>
  /\ IF result.kind = "OK" THEN roles' = roleDelete(roles, id)
     ELSE UNCHANGED roles

(* updatePermission(id, { isActive }) *)
updatePermission(id, isActive) ==
  /\ perms[id].name # ""
  /\ perms' = permissionUpdate(perms, id, isActive)
  /\ Answer("updatePermission", OK, NoRes)
  /\ UNCHANGED <<roles, nextRoleId, rolePerms, roleOnly>>

(***************************************************************************)
(* Authentication middleware                                               *)
(***************************************************************************)
gateOnly == <<users, nextUserId, roles, nextRoleId, perms, rolePerms, now,
              ticks, nextResetToken, known, rotated, consumed, pwChanged>>

authenticateResult(header) ==
  LET u == findById(header.token.userId) IN
  IF header.scheme # "Bearer"
    THEN Thrown("Unauthorized", "Header de autorizacion faltante o invalido")
  ELSE IF verifyToken(header.token) # "ok"
    THEN Thrown("Unauthorized", verifyToken(header.token))
  ELSE IF u = 0 \/ ~users[u].isActive
    THEN Thrown("Unauthorized", "Usuario no encontrado o inactivo")
  ELSE OK

(* role: user.role?.name || payload.role *)
IdentityOf(u, payload) ==
  [id |-> u, email |-> users[u].email,
   role |-> IF roles[users[u].roleId].name # ""
            THEN roles[users[u].roleId].name ELSE payload.role,
   roleId |-> users[u].roleId]

authenticate(header) ==
  LET result == authenticateResult(header)
      r == [NoRes EXCEPT !.tokIn = header.token]
      u == findById(header.token.userId)
  IN
  /\ UNCHANGED gateOnly
  /\ IF result.kind # "OK"
       THEN /\ req' = NoIdentity
            /\ Answer("authenticate", result, r)
     ELSE /\ req' = IdentityOf(u, header.token)
          /\ Answer("authenticate", result,
                    [r EXCEPT !.uid = u, !.next = TRUE])

(* the optional gate attaching every user it finds, disabled or not *)
optionalAuthenticateAttachesInactive(header, throws) ==
  /\ header.scheme = "Bearer"
  /\ verifyToken(header.token) = "ok"
  /\ ~throws
  /\ findById(header.token.userId) # 0

(* optionalAuthenticate: the identity is attached when the header starts
   with "Bearer ", verifyToken does not throw, the user lookup does not
   throw (`throws`), and `user && user.isActive` *)
optionalAuthenticateAttaches(header, throws) ==
  /\ header.scheme = "Bearer"
  /\ verifyToken(header.token) = "ok"
  /\ ~throws
  /\ findById(header.token.userId) # 0
  /\ users[findById(header.token.userId)].isActive

(* both catch blocks swallow the error; next() is the last statement *)
optionalAuthenticate(header, throws) ==
  LET u == findById(header.token.userId)
      r == [NoRes EXCEPT !.tokIn = header.token, !.next = TRUE]
  IN
  /\ UNCHANGED gateOnly
  /\ IF optionalAuthenticateAttaches(header, throws)
       THEN /\ req' = IdentityOf(u, header.token)
            /\ Answer("optionalAuthenticate", OK, [r EXCEPT !.uid = u])
     ELSE /\ req' = NoIdentity
          /\ Answer("optionalAuthenticate", OK, r)

(***************************************************************************)
(* Permissions middleware.  `throws` is the permission lookup failing      *)
(* (a database error), which the middleware catches.                       *)
(***************************************************************************)
(* the middleware calling next() from its catch block *)
GateFailsOpen(op, unauthenticated, throws, allowed, denied) ==
  /\ UNCHANGED <<gateOnly, req>>
  /\ IF unauthenticated
       THEN Answer(op, Thrown("Unauthorized", "Authentication required"), NoRes)
     ELSE IF ~throws /\ ~allowed
       THEN Answer(op, Thrown("Forbidden", denied), NoRes)
     ELSE Answer(op, OK, [NoRes EXCEPT !.next = TRUE])

Gate(op, unauthenticated, throws, allowed, denied) ==
  /\ UNCHANGED <<gateOnly, req>>
  /\ IF unauthenticated
       THEN Answer(op, Thrown("Unauthorized", "Authentication required"), NoRes)
     ELSE IF throws
       THEN Answer(op, Thrown("InternalError", "Error checking permissions"),
                   NoRes)
     ELSE IF ~allowed
       THEN Answer(op, Thrown("Forbidden", denied), NoRes)
     ELSE Answer(op, OK, [NoRes EXCEPT !.next = TRUE])

(* the orders in which the n lookups started by Promise.all may complete *)
Orders(n) == {f \in [1..n -> 1..n] : \A i, j \in 1..n : f[i] = f[j] => i = j}

(* Promise.all(permissions.map(...)): the lookup of permissions[order[k]] is
   the k-th to complete and its result goes to slot order[k] *)
RECURSIVE settle(_, _, _, _)
settle(userId, permissions, order, k) ==
  IF k = 0 THEN [i \in 1..Len(permissions) |-> FALSE]
  ELSE [settle(userId, permissions, order, k - 1) EXCEPT
          ![order[k]] = userHasPermission(userId, permissions[order[k]])]

permissionChecks(userId, permissions, order) ==
  settle(userId, permissions, order, Len(permissions))

(* Array.prototype.some and every with (has) => has === true *)
RECURSIVE some(_, _)
some(checks, i) ==
  IF i > Len(checks) THEN FALSE
  ELSE IF checks[i] = TRUE THEN TRUE
  ELSE some(checks, i + 1)

RECURSIVE every(_, _)
every(checks, i) ==
  IF i > Len(checks) THEN TRUE
  ELSE IF ~(checks[i] = TRUE) THEN FALSE
  ELSE every(checks, i + 1)

(* the any-of check folding its results with every *)
userHasAnyPermissionByEvery(userId, permissions, order) ==
  every(permissionChecks(userId, permissions, order), 1)

userHasAnyPermission(userId, permissions, order) ==
  some(permissionChecks(userId, permissions, order), 1)

userHasAllPermissions(userId, permissions, order) ==
  every(permissionChecks(userId, permissions, order), 1)

requirePermission(permission, throws) ==
  Gate("requirePermission", req = NoIdentity \/ req.id = 0, throws,
       userHasPermission(req.id, permission), "Permission required")

requireAnyPermission(permissions, throws) ==
  \E order \in Orders(Len(permissions)) :
    Gate("requireAnyPermission", req = NoIdentity \/ req.id = 0, throws,
         userHasAnyPermission(req.id, permissions, order),
         "One of these permissions required")

requireAllPermissions(permissions, throws) ==
  \E order \in Orders(Len(permissions)) :
    Gate("requireAllPermissions", req = NoIdentity \/ req.id = 0, throws,
         userHasAllPermissions(req.id, permissions, order),
         "All of these permissions required")

requireRole(roleName) ==
  Gate("requireRole", req = NoIdentity \/ req.role = "", FALSE,
       req.role = roleName, "Role required")

(***************************************************************************)
(* Store administration, UserService.deleteUser and the clock              *)
(***************************************************************************)
(* db.user.update({ where: { id }, data: { roleId } }) *)
assignUserRole(userId, roleId) ==
  /\ findById(userId) # 0
  /\ roleFindById(roleId) # 0
  /\ users' = [users EXCEPT ![userId].roleId = roleId]
  /\ Answer("assignUserRole", OK, [NoRes EXCEPT !.uid = userId,
                                                 !.roleId = roleId])
  /\ UNCHANGED <<nextUserId, roles, nextRoleId, perms, rolePerms, now, ticks,
                 nextResetToken, known, req, rotated, consumed, pwChanged>>

(* the active flag of a user row, which no service of the repository writes *)
setUserActive(userId, isActive) ==
  /\ findById(userId) # 0
  /\ users' = [users EXCEPT ![userId].isActive = isActive]
  /\ Answer("setUserActive", OK, [NoRes EXCEPT !.uid = userId])
  /\ UNCHANGED <<nextUserId, roles, nextRoleId, perms, rolePerms, now, ticks,
                 nextResetToken, known, req, rotated, consumed, pwChanged>>

deleteUser(id) ==
  LET r == [NoRes EXCEPT !.uid = id] IN
  IF findById(id) = 0
    THEN /\ Answer("deleteUser", Thrown("NotFound", "Usuario no encontrado"), r)
         /\ UNCHANGED <<dbVars, now, ticks, nextResetToken, known, req,
                        rotated, consumed, pwChanged>>
  ELSE /\ users' = [users EXCEPT ![id] = NoUser]
       /\ Answer("deleteUser", OK, r)
       /\ UNCHANGED <<nextUserId, roles, nextRoleId, perms, rolePerms, now,
                      ticks, nextResetToken, known, req, rotated, consumed,
                      pwChanged>>

(***************************************************************************)
(* The seed script: initializeDefaultRolesAndPermissions, then             *)
(* seedAdminUser with the roles getAllRoles returns.  The script runs      *)
(* alone, one statement after the other.                                   *)
(***************************************************************************)
MSG_NO_ADMIN_ROLE == "Rol admin no encontrado"

(* findByName on a role table *)
roleByName(rs, name) ==
  IF \E r \in RoleIds : rs[r].exists /\ rs[r].name = name
  THEN CHOOSE r \in RoleIds : rs[r].exists /\ rs[r].name = name
  ELSE 0

(* permissionRepository.findAll: the active permissions only *)
activePermissionNames(ps) ==
  {ps[p].name : p \in {q \in PermIds : ps[q].isActive}}

(* createMany with skipDuplicates of the names findAll did not return *)
seedPermissions(ps) ==
  [p \in PermIds |->
     IF /\ PERMISSIONS[p] \notin activePermissionNames(ps)
        /\ ~\E q \in PermIds : ps[q].name = PERMISSIONS[p]
     THEN [name |-> PERMISSIONS[p], isActive |-> TRUE]
     ELSE ps[p]]

(* DEFAULT_ROLE_PERMISSIONS[name] mapped through permissionMap *)
defaultPermissionIds(ps, name) ==
  {p \in PermIds : ps[p].isActive /\ ps[p].name \in DEFAULT_ROLE_PERMISSIONS[name]}

(* seedAdminUser for an admin user that exists: the role it ends with *)
seedAdminRoleId(us, rs, existingAdmin, adminRole) ==
  IF rs[us[existingAdmin].roleId].name # ROLE_ADMIN THEN adminRole
  ELSE us[existingAdmin].roleId

seed ==
  LET perms1 == seedPermissions(perms)
      needAdmin == roleByName(roles, ROLE_ADMIN) = 0
      roles1 == IF needAdmin THEN roleCreate(roles, nextRoleId, ROLE_ADMIN)
                ELSE roles
      rolePerms1 ==
        IF needAdmin
        THEN rolePerms \cup {<<nextRoleId, p>> :
                               p \in defaultPermissionIds(perms1, ROLE_ADMIN)}
        ELSE rolePerms
      nextRoleId1 == IF needAdmin THEN nextRoleId + 1 ELSE nextRoleId
      needUser == roleByName(roles1, ROLE_USER) = 0
      roles2 == IF needUser THEN roleCreate(roles1, nextRoleId1, ROLE_USER)
                ELSE roles1
      rolePerms2 ==
        IF needUser
        THEN rolePerms1 \cup {<<nextRoleId1, p>> :
                                p \in defaultPermissionIds(perms1, ROLE_USER)}
        ELSE rolePerms1
      nextRoleId2 == IF needUser THEN nextRoleId1 + 1 ELSE nextRoleId1
      (* roles.find((r) => r.name === 'admin') over getAllRoles() *)
      adminRole ==
        IF roleByName(roles2, ROLE_ADMIN) # 0
             /\ roles2[roleByName(roles2, ROLE_ADMIN)].isActive
        THEN roleByName(roles2, ROLE_ADMIN) ELSE 0
      existingAdmin == findByEmail(ADMIN_EMAIL)
  IN
  /\ nextRoleId2 <= MaxRoleId + 1
  /\ perms' = perms1
  /\ roles' = roles2
  /\ rolePerms' = rolePerms2
  /\ nextRoleId' = nextRoleId2
  /\ UNCHANGED <<now, ticks, nextResetToken, known, req, rotated, consumed,
                 pwChanged>>
  /\ IF adminRole = 0
       THEN /\ Answer("seed", Thrown("InternalError", MSG_NO_ADMIN_ROLE), NoRes)
            /\ UNCHANGED <<users, nextUserId>>
     ELSE IF existingAdmin # 0
       THEN /\ users' = [users EXCEPT ![existingAdmin].roleId =
                           seedAdminRoleId(users, roles2, existingAdmin, adminRole)]
            /\ Answer("seed", OK, [NoRes EXCEPT !.uid = existingAdmin])
            /\ UNCHANGED nextUserId
     ELSE /\ nextUserId <= MaxUserId
          /\ users' = create(users, nextUserId, ADMIN_EMAIL,
                             hashPassword(ADMIN_PASSWORD), adminRole)
          /\ nextUserId' = nextUserId + 1
          /\ Answer("seed", OK, [NoRes EXCEPT !.uid = nextUserId])

Tick(d) ==
  /\ ticks < MaxTicks
  /\ now' = now + d
  /\ ticks' = ticks + 1
  /\ Answer("tick", OK, NoRes)
  /\ UNCHANGED <<dbVars, nextResetToken, known, req, rotated, consumed,
                 pwChanged>>

(***************************************************************************)
(* Initial state: a fresh database after the seed script has run           *)
(***************************************************************************)
SeededRoles ==
  [r \in RoleIds |->
     IF r = 1 THEN [exists |-> TRUE, name |-> ROLE_ADMIN, isActive |-> TRUE]
     ELSE IF r = 2 THEN [exists |-> TRUE, name |-> ROLE_USER, isActive |-> TRUE]
     ELSE NoRole]

SeededPerms ==
  [p \in PermIds |-> [name |-> PERMISSIONS[p], isActive |-> TRUE]]

SeededRolePerms ==
  {<<1, p>> : p \in {q \in PermIds :
                       PERMISSIONS[q] \in DEFAULT_ROLE_PERMISSIONS[ROLE_ADMIN]}}
    \cup {<<2, p>> : p \in {q \in PermIds :
                       PERMISSIONS[q] \in DEFAULT_ROLE_PERMISSIONS[ROLE_USER]}}

SeededUsers ==
  [u \in UserIds |->
     IF u = 1
     THEN [exists |-> TRUE, email |-> ADMIN_EMAIL,
           password |-> hashPassword(ADMIN_PASSWORD), isActive |-> TRUE,
           roleId |-> 1, refreshToken |-> NullToken,
           passwordResetToken |-> NullResetToken, passwordResetExpires |-> 0]
     ELSE NoUser]

Init ==
  /\ users = SeededUsers
  /\ nextUserId = 2
  /\ roles = SeededRoles
  /\ nextRoleId = 3
  /\ perms = SeededPerms
  /\ rolePerms = SeededRolePerms
  /\ now = 0
  /\ ticks = 0
  /\ nextResetToken = 1
  /\ known = {}
  /\ req = NoIdentity
  /\ res = NoRes
  /\ rotated = {}
  /\ consumed = {}
  /\ pwChanged = {}
  /\ calls = [p \in Procs |-> NoCall]

(* a database the migrations have just created: no row in any table *)
InitEmpty ==
  /\ users = [u \in UserIds |-> NoUser]
  /\ nextUserId = 1
  /\ roles = [r \in RoleIds |-> NoRole]
  /\ nextRoleId = 1
  /\ perms = [p \in PermIds |-> NoPerm]
  /\ rolePerms = {}
  /\ now = 0
  /\ ticks = 0
  /\ nextResetToken = 1
  /\ known = {}
  /\ req = NoIdentity
  /\ res = NoRes
  /\ rotated = {}
  /\ consumed = {}
  /\ pwChanged = {}
  /\ calls = [p \in Procs |-> NoCall]

(***************************************************************************)
(* Inputs of the operations                                                *)
(***************************************************************************)
USER_EMAIL == "a@x.com"

RegisterEmails == {USER_EMAIL, ADMIN_EMAIL, " "}
LoginEmails == {ADMIN_EMAIL, USER_EMAIL, "b@x.com", ""}
NewPasswords == {StrongPw, WeakPw}
LoginPasswords == {ADMIN_PASSWORD, StrongPw, EmptyPw}

RoleNameInputs == {ROLE_ADMIN, "moderator"}
PermissionIdInputs == {{}, {2}}

NoChange == [setName |-> FALSE, name |-> "", setActive |-> FALSE,
             isActive |-> TRUE, setPerms |-> FALSE, permissionIds |-> {}]

UpdateRoleInputs ==
  {[NoChange EXCEPT !.setName = TRUE, !.name = n] : n \in RoleNameInputs}
    \cup {[NoChange EXCEPT !.setActive = TRUE, !.isActive = b] :
            b \in BOOLEAN}
    \cup {[NoChange EXCEPT !.setPerms = TRUE, !.permissionIds = ps] :
            ps \in PermissionIdInputs}

PermissionNameInputs == {"users.read", "admin.access", "nonexistent.perm"}

PermissionListInputs == {<<>>, <<"users.create", "nonexistent.perm">>,
                         <<"admin.access", "users.read">>}

(* lists with a repeated name, and one longer than two *)
PermissionListsWithDuplicates ==
  PermissionListInputs
    \cup {<<"users.read", "users.read">>,
          <<"users.read", "admin.access", "users.read">>}

HeaderInputs ==
  {[scheme |-> "Bearer", token |-> t] : t \in TokenInputs}
    \cup {[scheme |-> "none", token |-> NullToken]}
    \cup {[scheme |-> "Basic", token |-> NullToken]}

(***************************************************************************)
(* Specifications.  Each is the system restricted to the operations a      *)
(* group of properties is about, from the seeded initial state.            *)
(***************************************************************************)
RotationSteps == {1, REFRESH_TOKEN_EXPIRES_IN}
ResetSteps == {1, RESET_TOKEN_EXPIRES_IN - 1}
GateSteps == {ACCESS_TOKEN_EXPIRES_IN}

(* sessions: login, rotation, logout, password change *)
NextRotation ==
  \/ \E e \in LoginEmails, p \in LoginPasswords : Login(e, p)
  \/ \E t \in RefreshInputs : RefreshToken(t)
  \/ \E u \in UserIds, c \in {ADMIN_PASSWORD, StrongPw}, n \in NewPasswords :
       ChangePassword(u, c, n)
  \/ \E u \in UserIds : Logout(u)
  \/ \E d \in RotationSteps : Tick(d)

SpecRotation == Init /\ [][NextRotation]_vars

(* sessions against password reset and change, deletion and deactivation *)
NextInvalidate ==
  \/ \E e \in {ADMIN_EMAIL}, p \in {ADMIN_PASSWORD, StrongPw} : Login(e, p)
  \/ \E e \in {USER_EMAIL}, p \in {StrongPw} : Register(e, p)
  \/ \E t \in known : RefreshToken(t)
  \/ \E e \in {ADMIN_EMAIL} : ForgotPassword(e)
  \/ \E t \in 1..(nextResetToken - 1), p \in {StrongPw} : ResetPassword(t, p)
  \/ \E u \in {1}, c \in {ADMIN_PASSWORD}, n \in {StrongPw} :
       ChangePassword(u, c, n)
  \/ \E u \in UserIds : deleteUser(u)
  \/ \E u \in UserIds, b \in BOOLEAN : setUserActive(u, b)
  \/ Tick(1)

SpecInvalidate == Init /\ [][NextInvalidate]_vars

(* login against registration, deactivation and deletion *)
(* two register calls in flight at once *)
NextRegister ==
  \/ \E p \in Procs, e \in RegisterEmails, pw \in NewPasswords :
       registerCheck(p, e, pw)
  \/ \E p \in Procs : registerCreate(p)
  \/ \E p \in Procs, fails \in BOOLEAN : registerStore(p, fails)
  \/ \E e \in RegisterEmails : Login(e, StrongPw)
  \/ \E u \in UserIds : deleteUser(u)

SpecRegister == Init /\ [][NextRegister]_vars

(* registration while the role table is administered *)
NextRegisterRole ==
  \/ \E e \in RegisterEmails, pw \in NewPasswords : Register(e, pw)
  \/ \E n \in RoleNameInputs, ps \in {{1}} : createRole(n, ps)
  \/ \E r \in RoleIds, data \in UpdateRoleInputs : updateRole(r, data)
  \/ \E r \in RoleIds : deleteRole(r)
  \/ \E e \in {USER_EMAIL}, pw \in {StrongPw} : Login(e, pw)

SpecRegisterRole == Init /\ [][NextRegisterRole]_vars

NextLogin ==
  \/ \E e \in RegisterEmails, p \in NewPasswords : Register(e, p)
  \/ \E e \in LoginEmails, p \in LoginPasswords : Login(e, p)
  \/ \E u \in UserIds, b \in BOOLEAN : setUserActive(u, b)
  \/ \E u \in UserIds : deleteUser(u)
  \/ \E u \in UserIds : Logout(u)

SpecLogin == Init /\ [][NextLogin]_vars

(* the password reset flow *)
NextReset ==
  \/ \E e \in LoginEmails : ForgotPassword(e)
  \/ \E t \in ResetTokenInputs, p \in NewPasswords \cup {EmptyPw} :
       ResetPassword(t, p)
  \/ \E u \in UserIds, c \in {ADMIN_PASSWORD, StrongPw}, n \in NewPasswords :
       ChangePassword(u, c, n)
  \/ \E e \in {ADMIN_EMAIL}, p \in {ADMIN_PASSWORD, StrongPw} : Login(e, p)
  \/ \E d \in ResetSteps : Tick(d)

SpecReset == Init /\ [][NextReset]_vars

(* roles and permissions *)
NextRbac ==
  \/ \E n \in RoleNameInputs, ps \in {{1}} : createRole(n, ps)
  \/ \E r \in RoleIds \cup {MaxRoleId + 1}, data \in UpdateRoleInputs :
       updateRole(r, data)
  \/ \E r \in RoleIds \cup {MaxRoleId + 1} : deleteRole(r)
  \/ \E p \in {1}, b \in BOOLEAN : updatePermission(p, b)
  \/ \E u \in UserIds, r \in RoleIds : assignUserRole(u, r)

SpecRbac == Init /\ [][NextRbac]_vars

(* the access control gate *)
NextGate ==
  \/ \E e \in {ADMIN_EMAIL}, p \in {ADMIN_PASSWORD} : Login(e, p)
  \/ \E h \in HeaderInputs : authenticate(h)
  \/ \E p \in PermissionNameInputs, throws \in BOOLEAN :
       requirePermission(p, throws)
  \/ \E ps \in PermissionListInputs, throws \in BOOLEAN :
       requireAnyPermission(ps, throws)
  \/ \E ps \in PermissionListInputs, throws \in BOOLEAN :
       requireAllPermissions(ps, throws)
  \/ \E n \in {ROLE_ADMIN, ROLE_USER} : requireRole(n)
  \/ \E n \in {""}, ps \in {{}} : createRole(n, ps)
  \/ \E u \in UserIds, r \in RoleIds : assignUserRole(u, r)
  \/ \E u \in UserIds, b \in BOOLEAN : setUserActive(u, b)
  \/ \E u \in UserIds : deleteUser(u)
  \/ \E d \in GateSteps : Tick(d)

SpecGate == Init /\ [][NextGate]_vars

(* the seed script, run again after the tables were administered *)
NextSeed ==
  \/ seed
  \/ \E r \in RoleIds, data \in UpdateRoleInputs : updateRole(r, data)
  \/ \E p \in {13}, b \in BOOLEAN : updatePermission(p, b)
  \/ \E u \in UserIds, r \in RoleIds : assignUserRole(u, r)
  \/ \E u \in UserIds : deleteUser(u)

SpecSeed == InitEmpty /\ [][NextSeed]_vars

(* sessions opened and rotated by calls that overlap *)
NextLastWrite ==
  \/ \E p \in Procs, e \in {ADMIN_EMAIL}, pw \in {ADMIN_PASSWORD, StrongPw} :
       loginCheck(p, e, pw)
  \/ \E p \in Procs, t \in RefreshInputs : refreshTokenCheck(p, t)
  \/ \E p \in Procs : storeRefreshToken(p)
  \/ \E d \in {1} : Tick(d)

SpecLastWrite == Init /\ [][NextLastWrite]_vars

(* the flows that write twice, with a second write that may fail *)
NextNoRollback ==
  \/ \E e \in {ADMIN_EMAIL}, pw \in {ADMIN_PASSWORD} : Login(e, pw)
  \/ \E e \in {ADMIN_EMAIL} : ForgotPassword(e)
  \/ \E p \in Procs, e \in {USER_EMAIL}, pw \in {StrongPw} :
       registerCheck(p, e, pw)
  \/ \E p \in Procs : registerCreate(p)
  \/ \E p \in Procs, fails \in BOOLEAN : registerStore(p, fails)
  \/ \E p \in Procs, t \in ResetTokenInputs, pw \in NewPasswords :
       resetPasswordCheck(p, t, pw)
  \/ \E p \in Procs, u \in {1}, c \in {ADMIN_PASSWORD}, n \in {StrongPw} :
       changePasswordCheck(p, u, c, n)
  \/ \E p \in Procs : writePassword(p)
  \/ \E p \in Procs, fails \in BOOLEAN : clearRefreshToken(p, fails)

SpecNoRollback == Init /\ [][NextNoRollback]_vars

(* a refresh in flight while the session is invalidated *)
NextInFlight ==
  \/ \E e \in {ADMIN_EMAIL}, pw \in {ADMIN_PASSWORD} : Login(e, pw)
  \/ \E p \in Procs, t \in RefreshInputs : refreshTokenCheck(p, t)
  \/ \E p \in Procs : storeRefreshToken(p)
  \/ \E u \in {1} : Logout(u)
  \/ \E e \in {ADMIN_EMAIL} : ForgotPassword(e)
  \/ \E p \in Procs, t \in ResetTokenInputs, pw \in {StrongPw} :
       resetPasswordCheck(p, t, pw)
  \/ \E p \in Procs, u \in {1}, c \in {ADMIN_PASSWORD}, n \in {StrongPw} :
       changePasswordCheck(p, u, c, n)
  \/ \E p \in Procs : writePassword(p)
  \/ \E p \in Procs, fails \in {FALSE} : clearRefreshToken(p, fails)

SpecInFlight == Init /\ [][NextInFlight]_vars

(* concurrent resetPassword calls *)
NextResetRace ==
  \/ \E e \in {ADMIN_EMAIL} : ForgotPassword(e)
  \/ \E p \in Procs, t \in ResetTokenInputs, pw \in {StrongPw, ADMIN_PASSWORD} :
       resetPasswordCheck(p, t, pw)
  \/ \E p \in Procs : writePassword(p)
  \/ \E p \in Procs, fails \in {FALSE} : clearRefreshToken(p, fails)
  \/ \E e \in {ADMIN_EMAIL}, pw \in {StrongPw} : Login(e, pw)

SpecResetRace == Init /\ [][NextResetRace]_vars

(* bearer credentials at the gate, across the end of a session *)
NextBearer ==
  \/ \E e \in {ADMIN_EMAIL}, p \in {ADMIN_PASSWORD} : Login(e, p)
  \/ \E u \in {1} : Logout(u)
  \/ \E u \in {1}, c \in {ADMIN_PASSWORD}, n \in {StrongPw} :
       ChangePassword(u, c, n)
  \/ \E h \in HeaderInputs : authenticate(h)
  \/ \E d \in GateSteps : Tick(d)

SpecBearer == Init /\ [][NextBearer]_vars

(* concurrent replacements of a role's permissions; each caller has its
   own permission set *)
ReplaceInput == [p \in Procs |-> IF p = 1 THEN {1} ELSE {13}]

NextReplace ==
  \/ \E p \in Procs, id \in {1, MaxRoleId + 1} :
       updateRoleCheck(p, id, ReplaceInput[p])
  \/ \E p \in Procs : deleteMany(p)
  \/ \E p \in Procs : createMany(p)
  \/ \E u \in {1}, n \in {"users.read", "admin.access"} :
       userHasPermissionQuery(u, n)

SpecReplace == Init /\ [][NextReplace]_vars

(* calls that fail, with sessions and reset tokens in the store *)
FailingSteps == {RESET_TOKEN_EXPIRES_IN, REFRESH_TOKEN_EXPIRES_IN}

NextFailing ==
  \/ \E e \in {ADMIN_EMAIL, "b@x.com"}, p \in LoginPasswords : Login(e, p)
  \/ \E t \in RefreshInputs : RefreshToken(t)
  \/ \E e \in {ADMIN_EMAIL} : ForgotPassword(e)
  \/ \E t \in ResetTokenInputs, p \in NewPasswords : ResetPassword(t, p)
  \/ \E u \in {1}, c \in {ADMIN_PASSWORD, StrongPw}, n \in NewPasswords :
       ChangePassword(u, c, n)
  \/ \E u \in {1}, b \in BOOLEAN : setUserActive(u, b)
  \/ \E u \in {1} : deleteUser(u)
  \/ \E d \in FailingSteps : Tick(d)

SpecFailing == Init /\ [][NextFailing]_vars

(* tokens over their lifetime *)
TokenSteps == {1, ACCESS_TOKEN_EXPIRES_IN - 1}

NextToken ==
  \/ \E e \in {ADMIN_EMAIL}, p \in {ADMIN_PASSWORD} : Login(e, p)
  \/ \E h \in HeaderInputs : authenticate(h)
  \/ \E u \in UserIds, r \in RoleIds : assignUserRole(u, r)
  \/ \E d \in TokenSteps : Tick(d)

SpecToken == Init /\ [][NextToken]_vars

(* the permission checks over lists of names *)
NextPermissions ==
  \/ \E e \in {ADMIN_EMAIL}, p \in {ADMIN_PASSWORD} : Login(e, p)
  \/ \E h \in HeaderInputs : authenticate(h)
  \/ \E ps \in PermissionListsWithDuplicates, throws \in BOOLEAN :
       requireAnyPermission(ps, throws)
  \/ \E ps \in PermissionListsWithDuplicates, throws \in BOOLEAN :
       requireAllPermissions(ps, throws)
  \/ \E u \in UserIds, r \in RoleIds : assignUserRole(u, r)
  \/ \E p \in {1, 13}, b \in BOOLEAN : updatePermission(p, b)

SpecPermissions == Init /\ [][NextPermissions]_vars

(* the optional gate, on routes open to anonymous requests *)
NextOptional ==
  \/ \E e \in {ADMIN_EMAIL}, p \in {ADMIN_PASSWORD} : Login(e, p)
  \/ \E h \in HeaderInputs, throws \in BOOLEAN : optionalAuthenticate(h, throws)
  \/ \E u \in UserIds, r \in RoleIds : assignUserRole(u, r)
  \/ \E u \in UserIds, b \in BOOLEAN : setUserActive(u, b)
  \/ \E u \in UserIds : deleteUser(u)
  \/ \E d \in GateSteps : Tick(d)

SpecOptional == Init /\ [][NextOptional]_vars

(* the whole system *)
Next ==
  \/ NextRotation
  \/ NextInvalidate
  \/ NextLogin
  \/ NextReset
  \/ NextRbac
  \/ NextGate
  \/ NextRegister
  \/ NextRegisterRole
  \/ NextOptional
  \/ NextPermissions
  \/ NextToken
  \/ NextSeed
  \/ NextLastWrite
  \/ NextNoRollback
  \/ NextInFlight
  \/ NextResetRace
  \/ NextBearer
  \/ NextReplace
  \/ NextFailing

Spec == Init /\ [][Next]_vars

(***************************************************************************)
(* Properties                                                              *)
(***************************************************************************)

(* C1: refresh rotation.  Once RefreshToken(rt1) has succeeded, every       *)
(* later RefreshToken(rt1) fails with Unauthorized, whatever the time       *)
(* between the issuance of rt1 and its rotation.                            *)
C1_RotatedTokenRejected ==
  \A t \in rotated : refreshTokenResult(t).kind = "Unauthorized"

(* a rotated token was presented again and accepted *)
C1_ReplayAccepted ==
  /\ res.op = "refresh"
  /\ res.kind = "OK"
  /\ res.tokIn \in rotated
  /\ res.refresh = res.tokIn

(* The outcome of RefreshToken for a token of a user whose password was    *)
(* changed and who has not logged in since.                                 *)
InvalidatedOutcome(t) ==
  IF verifyToken(t) # "ok" THEN "Unauthorized"
  ELSE IF findById(t.userId) = 0 THEN "NotFound"
  ELSE IF ~users[t.userId].isActive THEN "Forbidden"
  ELSE "Unauthorized"

(* C2 (as stated): after a successful ResetPassword or ChangePassword,      *)
(* RefreshToken with any refresh token issued before fails with             *)
(* Unauthorized until the next successful Login or Register.                *)
C2_OldTokensUnauthorized ==
  \A t \in known :
    t.userId \in pwChanged => refreshTokenResult(t).kind = "Unauthorized"

(* C2 (amended): after a successful ResetPassword or ChangePassword the     *)
(* user's stored refresh token is null and RefreshToken with any refresh    *)
(* token issued before fails until the next successful Login or Register:   *)
(* with Unauthorized while the user exists and is active, NotFound once     *)
(* the user was deleted, Forbidden once the user was deactivated.           *)
C2_OldTokensRejected ==
  \A t \in known :
    t.userId \in pwChanged =>
      /\ refreshTokenResult(t).kind # "OK"
      /\ refreshTokenResult(t).kind = InvalidatedOutcome(t)
      /\ findById(t.userId) # 0 => users[t.userId].refreshToken = NullToken

(* a token issued before the password change was presented and refused *)
C2_OldTokenPresented ==
  /\ res.op = "refresh"
  /\ res.kind = "Unauthorized"
  /\ res.tokIn \in known
  /\ res.tokIn.userId \in pwChanged
  /\ users[res.tokIn.userId].exists
  /\ users[res.tokIn.userId].isActive

(* C3: Login fails with Unauthorized and the one generic message whenever   *)
(* the email is unknown or the password does not match the stored hash,     *)
(* for every stored user, active or inactive.                               *)
C3_LoginFailureUniform ==
  \A e \in LoginEmails, p \in LoginPasswords :
    (/\ e # ""
     /\ p # EmptyPw
     /\ \/ findByEmail(e) = 0
        \/ ~comparePassword(p, users[findByEmail(e)].password))
      => loginResult(e, p) = Thrown("Unauthorized", MSG_INVALID_CREDENTIALS)

(* a login refused as Forbidden *)
C3_LoginForbidden ==
  /\ res.op = "login"
  /\ res.kind = "Forbidden"

(* C4: permission resolution is fail-closed.  userHasPermission(u, p) is    *)
(* true only if u exists, u's role exists and is active, and an active      *)
(* permission named p is joined to that role.                               *)
C4_FailClosed ==
  \A u \in UserIds, i \in PermIds :
    userHasPermission(u, PERMISSIONS[i]) =>
      /\ users[u].exists
      /\ roles[users[u].roleId].exists
      /\ roles[users[u].roleId].isActive
      /\ \E x \in rolePerms :
           /\ x[1] = users[u].roleId
           /\ perms[x[2]].name = PERMISSIONS[i]
           /\ perms[x[2]].isActive

(* a user whose role is inactive *)
C4_UserOfInactiveRole ==
  \E u \in UserIds :
    /\ users[u].exists
    /\ roles[users[u].roleId].exists
    /\ ~roles[users[u].roleId].isActive

(* C5: authenticate with a validly signed, unexpired token fails with       *)
(* Unauthorized when the user row is missing or inactive, and on success    *)
(* the attached identity carries the role the store holds for the user,     *)
(* not the role recorded in the token.                                      *)
C5_GateUsesStore ==
  res.op = "authenticate" =>
    /\ (/\ verifyToken(res.tokIn) = "ok"
        /\ \/ findById(res.tokIn.userId) = 0
           \/ ~users[res.tokIn.userId].isActive)
         => (res.kind = "Unauthorized" /\ ~res.next /\ req = NoIdentity)
    /\ res.next =>
         /\ req.id = res.tokIn.userId
         /\ req.role = roles[users[req.id].roleId].name

(* a token whose role differs from the store's passed the gate *)
C5_StaleTokenAuthenticated ==
  /\ res.op = "authenticate"
  /\ res.next
  /\ res.tokIn.role # roles[users[req.id].roleId].name

(* The outcome the gate owes a request: its kind and whether the handler    *)
(* runs, from whether an identity is attached, whether the check raised     *)
(* and whether the declared policy holds for the identity.                  *)
GateOwes(attached, raised, policy) ==
  /\ ~attached => (res'.kind = "Unauthorized" /\ ~res'.next)
  /\ (attached /\ raised) => (res'.kind = "InternalError" /\ ~res'.next)
  /\ (attached /\ ~raised /\ ~policy) => (res'.kind = "Forbidden" /\ ~res'.next)
  /\ res'.next => (attached /\ ~raised /\ policy)
  /\ (attached /\ ~raised /\ policy) => res'.next

(* C6: in the permission-gated variants a request without an identity is    *)
(* rejected with Unauthorized, one whose identity fails the declared policy *)
(* with Forbidden, and the handler runs only when the policy check          *)
(* evaluated to true, never when the check raised an error.                 *)
C6_GateDecides ==
  [][/\ res'.op = "requirePermission" =>
          \A p \in PermissionNameInputs, throws \in BOOLEAN :
            requirePermission(p, throws) =>
              GateOwes(req # NoIdentity, throws, userHasPermission(req.id, p))
     /\ res'.op = "requireAnyPermission" =>
          \A ps \in PermissionListInputs, throws \in BOOLEAN :
            requireAnyPermission(ps, throws) =>
              GateOwes(req # NoIdentity, throws,
                       \E i \in 1..Len(ps) : userHasPermission(req.id, ps[i]))
     /\ res'.op = "requireAllPermissions" =>
          \A ps \in PermissionListInputs, throws \in BOOLEAN :
            requireAllPermissions(ps, throws) =>
              GateOwes(req # NoIdentity, throws,
                       \A i \in 1..Len(ps) : userHasPermission(req.id, ps[i]))
     /\ res'.op = "requireRole" =>
          \A n \in {ROLE_ADMIN, ROLE_USER} :
            requireRole(n) => GateOwes(req # NoIdentity, FALSE, req.role = n)
    ]_vars

(* an authenticated request was refused by a permission gate *)
C6_IdentityRefused ==
  /\ req # NoIdentity
  /\ res.op = "requireAllPermissions"
  /\ res.kind = "Forbidden"
  /\ ~res.next

(* C7: after seeding, no sequence of createRole, updateRole and deleteRole  *)
(* removes or deactivates the system roles: a role named "admin" and a      *)
(* role named "user" exist and are active in every reachable state.         *)
C7_SystemRolesActive ==
  \A n \in {ROLE_ADMIN, ROLE_USER} :
    \E r \in RoleIds : roles[r].exists /\ roles[r].name = n /\ roles[r].isActive

(* an updateRole of a seeded role went through *)
C7_SystemRoleUpdated ==
  /\ res.op = "updateRole"
  /\ res.kind = "OK"
  /\ res.roleId \in {1, DEFAULT_ROLE_ID}

(* C8: deleteRole of the seeded admin role or the seeded user role always   *)
(* fails with BadRequest or Forbidden and leaves the role row and its       *)
(* permission associations unchanged; deleteRole of an unknown id fails     *)
(* with NotFound.                                                           *)
C8_SystemRoleDeleteRefused ==
  [][/\ \A id \in {1, DEFAULT_ROLE_ID} :
          deleteRole(id) =>
            /\ res'.kind \in {"BadRequest", "Forbidden"}
            /\ roles' = roles
            /\ rolePerms' = rolePerms
     /\ \A id \in (RoleIds \cup {MaxRoleId + 1}) :
          (deleteRole(id) /\ roleFindById(id) = 0) => res'.kind = "NotFound"
    ]_vars

(* a deleteRole of a seeded role went through *)
C8_SystemRoleDeleted ==
  /\ res.op = "deleteRole"
  /\ res.kind = "OK"
  /\ res.roleId \in {1, DEFAULT_ROLE_ID}

(* C9: ResetPassword with the stored token of a user (res.resetIn is the    *)
(* token presented), once its expiry is not strictly in the future, fails   *)
(* with BadRequest and leaves the password hash, the reset token fields     *)
(* and the stored refresh token unchanged, whatever the password given.     *)
C9_ExpiredResetRefused ==
  [][(/\ res'.op = "reset"
       /\ res'.resetIn # NullResetToken
       /\ \E u \in UserIds :
            /\ users[u].exists
            /\ users[u].passwordResetToken = res'.resetIn
            /\ users[u].passwordResetExpires <= now)
        => (res'.kind = "BadRequest" /\ users' = users)
    ]_vars

(* the stored token was presented with a strong password at or after its    *)
(* expiry and refused                                                       *)
C9_ExpiredTokenPresented ==
  /\ res.op = "reset"
  /\ res.kind = "BadRequest"
  /\ res.msg = MSG_RESET_INVALID
  /\ \E u \in UserIds :
       /\ users[u].exists
       /\ users[u].passwordResetToken = res.resetIn
       /\ users[u].passwordResetExpires <= now

(* C10: a reset token is single-use.  A successful ResetPassword clears     *)
(* the user's reset token and expiry, every later ResetPassword with the    *)
(* same token fails with BadRequest, and a successful ChangePassword        *)
(* clears any outstanding reset token too.                                  *)
C10_ResetTokenSingleUse ==
  /\ \A t \in consumed, p \in NewPasswords \cup {EmptyPw} :
       resetPasswordResult(t, p).kind = "BadRequest"
  /\ (res.op \in {"reset", "change"} /\ res.kind = "OK") =>
       /\ users[res.uid].passwordResetToken = NullResetToken
       /\ users[res.uid].passwordResetExpires = 0

(* a consumed token was presented again, with a strong password and before  *)
(* any time had passed, and refused                                         *)
C10_ConsumedTokenPresented ==
  /\ res.op = "reset"
  /\ res.kind = "BadRequest"
  /\ res.msg = MSG_RESET_INVALID
  /\ res.resetIn \in consumed
  /\ ticks = 0

(* a reset token that ResetPassword accepts with a strong password *)
ResetTokenAccepted(t) == resetPasswordResult(t, StrongPw).kind = "OK"

(* C11: at most one reset token is outstanding per user.  A ForgotPassword  *)
(* for an existing email stores a new token t2 expiring one hour after the  *)
(* call, the token t1 it replaces is refused with BadRequest from then on   *)
(* and t2 is accepted; a token no row holds is never accepted.              *)
C11_OneOutstandingResetToken ==
  /\ [](\A t \in 1..(nextResetToken - 1) :
          /\ ResetTokenAccepted(t) =>
               Cardinality({u \in UserIds :
                              users[u].passwordResetToken = t}) = 1
          /\ (\A u \in UserIds : users[u].passwordResetToken # t) =>
               \A p \in NewPasswords \cup {EmptyPw} :
                 resetPasswordResult(t, p).kind = "BadRequest")
  /\ [][(res'.op = "forgot" /\ res'.uid # 0) =>
          /\ users'[res'.uid].passwordResetToken = nextResetToken
          /\ users'[res'.uid].passwordResetExpires =
               now + RESET_TOKEN_EXPIRES_IN
          /\ \A u \in UserIds :
               \/ users[res'.uid].passwordResetToken = NullResetToken
               \/ users'[u].passwordResetToken #
                    users[res'.uid].passwordResetToken
        ]_vars

(* the first of two tokens issued to a user was presented, with a strong    *)
(* password and before any time had passed, and refused                     *)
C11_SupersededTokenPresented ==
  /\ res.op = "reset"
  /\ res.kind = "BadRequest"
  /\ res.msg = MSG_RESET_INVALID
  /\ ticks = 0
  /\ res.resetIn \in 1..(nextResetToken - 1)
  /\ res.resetIn \notin consumed
  /\ \E u \in UserIds :
       /\ users[u].passwordResetToken > res.resetIn
       /\ ResetTokenAccepted(users[u].passwordResetToken)

(* C12: ForgotPassword is enumeration-resistant.  For every non-empty       *)
(* email the returned result (kind and message) is the same success         *)
(* whether or not a user with that email exists.                            *)
C12_ForgotIndistinguishable ==
  \A e \in LoginEmails, f \in LoginEmails :
    (e # "" /\ f # "") =>
      /\ forgotPasswordResult(e) = forgotPasswordResult(f)
      /\ forgotPasswordResult(e).kind = "OK"

(* ForgotPassword answered an unknown email while a known one holds a token *)
C12_UnknownEmailAnswered ==
  /\ res.op = "forgot"
  /\ res.kind = "OK"
  /\ res.uid = 0
  /\ \E u \in UserIds : users[u].passwordResetToken # NullResetToken

(* C13: ChangePassword with a new password that fails the strength policy *)
(* fails with BadRequest before any write, whether or not the current       *)
(* password given is correct; the user rows are unchanged, so Login with    *)
(* the old password answers as before.                                      *)
C13_WeakNewPasswordRefused ==
  [][res'.op = "change" =>
       \A u \in UserIds, c \in {ADMIN_PASSWORD, StrongPw} :
         ChangePassword(u, c, WeakPw) =>
           /\ res'.kind = "BadRequest"
           /\ users' = users
           /\ \A e \in LoginEmails, p \in LoginPasswords :
                loginResult(e, p)' = loginResult(e, p)
    ]_vars

(* a weak new password was refused for a user whose hash is the seeded one  *)
C13_WeakPasswordPresented ==
  /\ res.op = "change"
  /\ res.kind = "BadRequest"
  /\ res.msg = validatePasswordStrength(WeakPw)
  /\ findById(res.uid) # 0
  /\ comparePassword(ADMIN_PASSWORD, users[res.uid].password)
  /\ loginResult(users[res.uid].email, ADMIN_PASSWORD).kind = "OK"

(* C14: Logout(userId) sets the user's stored refresh token to null and     *)
(* changes nothing else, and it is idempotent: after a Logout, Logout of    *)
(* the same user succeeds again and leaves the state as it is.              *)
C14_LogoutIdempotent ==
  /\ []((res.op = "logout" /\ res.kind = "OK") =>
          /\ users[res.uid].refreshToken = NullToken
          /\ logoutResult(res.uid).kind = "OK"
          /\ updateRefreshToken(users, res.uid, NullToken) = users)
  /\ [][(res'.op = "logout" /\ res'.kind = "OK") =>
          /\ users' = [users EXCEPT ![res'.uid].refreshToken = NullToken]
          /\ roles' = roles
          /\ perms' = perms
          /\ rolePerms' = rolePerms
          /\ nextUserId' = nextUserId
        ]_vars

(* a user who had a session was logged out *)
C14_SessionClosed ==
  /\ res.op = "logout"
  /\ res.kind = "OK"
  /\ \E t \in known : t.userId = res.uid
  /\ users[res.uid].password # NoHash

(* C15: a Register call whose email is held by a user when the call tries *)
(* to create its row fails with Conflict and creates no user, however the *)
(* steps of two calls interleave; and no two users ever share an email.   *)
C15_DuplicateRegisterConflicts ==
  /\ [](\A u, v \in UserIds :
          (users[u].exists /\ users[v].exists /\ users[u].email = users[v].email)
            => u = v)
  /\ [][\A p \in Procs :
          (calls[p].op = "register" /\ calls[p].pc = 1
             /\ calls'[p].op = "idle" /\ emailExists(calls[p].email))
            => (res'.kind = "Conflict" /\ users' = users)]_vars

(* a call that passed the email check lost the race and got the database *)
(* error, while the user created by the other call holds the email       *)
C15_LoserGetsServerError ==
  /\ res.op = "register"
  /\ res.kind = "InternalError"
  /\ res.msg = MSG_UNIQUE_EMAIL
  /\ findByEmail(USER_EMAIL) # 0
  /\ \A p \in Procs : calls[p].op = "idle"

(* C16: whatever the role table holds when Register succeeds, the user   *)
(* it creates is assigned one role, that role is the role named "user",  *)
(* and "user" is the role in the issued access and refresh tokens.       *)
C16_RegisteredAsUser ==
  [][(res'.op = "register" /\ res'.kind = "OK") =>
       /\ users'[res'.uid].exists
       /\ roleFindById(users'[res'.uid].roleId) # 0
       /\ roles'[users'[res'.uid].roleId].name = ROLE_USER
       /\ res'.access.role = ROLE_USER
       /\ res'.refresh.role = ROLE_USER]_vars

(* a user was registered into a role that is not named "user" and holds  *)
(* tokens that carry that role                                           *)
C16_RegisteredIntoOtherRole ==
  /\ res.op = "register"
  /\ res.kind = "OK"
  /\ users[res.uid].roleId = DEFAULT_ROLE_ID
  /\ roles[DEFAULT_ROLE_ID].name # ROLE_USER
  /\ res.access.role = roles[DEFAULT_ROLE_ID].name
  /\ users[res.uid].refreshToken = res.refresh

(* C17: the optional gate never answers with an error and always hands   *)
(* the request on; the request leaves it with an identity exactly when   *)
(* the header is a bearer credential whose token is signed and not       *)
(* expired, the user lookup succeeds, and the user exists and is active; *)
(* the identity is then that user's.  Otherwise no identity is attached. *)
C17_OptionalGateNeverFails ==
  [][res'.op = "optionalAuthenticate" =>
       \A h \in HeaderInputs, throws \in BOOLEAN :
         optionalAuthenticate(h, throws) =>
           /\ res'.kind = "OK"
           /\ res'.next
           /\ users' = users
           /\ (req' # NoIdentity) <=>
                /\ h.scheme = "Bearer"
                /\ h.token.sig
                /\ now < h.token.exp
                /\ ~throws
                /\ \E u \in UserIds :
                     /\ u = h.token.userId
                     /\ users[u].exists
                     /\ users[u].isActive
           /\ (req' # NoIdentity) =>
                /\ req'.id = h.token.userId
                /\ req'.email = users[h.token.userId].email
                /\ req'.roleId = users[h.token.userId].roleId]_vars

(* a signed, unexpired bearer token of a user who has since been deleted *)
(* was presented: the request went on as anonymous                       *)
C17_AnonymousAfterFailure ==
  /\ res.op = "optionalAuthenticate"
  /\ res.kind = "OK"
  /\ res.next
  /\ req = NoIdentity
  /\ res.tokIn \in known
  /\ verifyToken(res.tokIn) = "ok"
  /\ findById(res.tokIn.userId) = 0

Names(permissions) == {permissions[i] : i \in 1..Len(permissions)}

(* C18: for every user, every list of permission names (empty, with      *)
(* duplicates) and every order in which the per-name checks complete,    *)
(* the any-of check is the OR and the all-of check is the AND of the     *)
(* per-name userHasPermission results; the two gates let an              *)
(* authenticated request through exactly on that result.                 *)
C18_AnyIsOrAllIsAnd ==
  /\ [](\A u \in UserIds, ps \in PermissionListsWithDuplicates :
          \A order \in Orders(Len(ps)) :
            /\ userHasAnyPermission(u, ps, order)
                 <=> \E n \in Names(ps) : userHasPermission(u, n)
            /\ userHasAllPermissions(u, ps, order)
                 <=> \A n \in Names(ps) : userHasPermission(u, n))
  /\ [][/\ res'.op = "requireAnyPermission" =>
            \A ps \in PermissionListsWithDuplicates :
              (requireAnyPermission(ps, FALSE) /\ req.id # 0) =>
                (res'.next <=> \E n \in Names(ps) : userHasPermission(req.id, n))
        /\ res'.op = "requireAllPermissions" =>
            \A ps \in PermissionListsWithDuplicates :
              (requireAllPermissions(ps, FALSE) /\ req.id # 0) =>
                (res'.next <=> \A n \in Names(ps) : userHasPermission(req.id, n))]_vars

(* the all-of gate let through a user who holds no name of any non-empty *)
(* list, so the list was empty; the any-of check is false for the empty  *)
(* list and true for a list of which the user holds one name             *)
C18_EmptyListPassesAllOf ==
  /\ res.op = "requireAllPermissions"
  /\ res.kind = "OK"
  /\ res.next
  /\ req.id # 0
  /\ ~userHasPermission(req.id, "users.read")
  /\ ~userHasPermission(req.id, "users.create")
  /\ ~userHasAnyPermission(req.id, <<>>, <<>>)
  /\ userHasAnyPermission(req.id, <<"admin.access", "users.read">>, <<2, 1>>)

(* the user holds the admin role as the seed created it: role 1, named   *)
(* "admin", with exactly the permissions of DEFAULT_ROLE_PERMISSIONS     *)
HoldsSeededAdminRole(u) ==
  /\ findById(u) # 0
  /\ users[u].roleId = 1
  /\ roleFindById(1) # 0
  /\ roles[1].name = ROLE_ADMIN
  /\ {perms[x[2]].name : x \in {y \in rolePerms : y[1] = 1}}
       = DEFAULT_ROLE_PERMISSIONS[ROLE_ADMIN]

AssignedNames(u) ==
  {perms[x[2]].name :
     x \in {y \in rolePerms : y[1] = users[u].roleId /\ perms[y[2]].isActive}}

C21_TokenRoundTripUntilExpiry ==
  /\ [](\A u \in UserIds, r \in {ROLE_ADMIN, ROLE_USER} :
          LET t == generateAccessToken(u, users[u].email, r) IN
          /\ verifyToken(t) = "ok"
          /\ decoded(t) = [userId |-> u, email |-> users[u].email, role |-> r]
          /\ t.exp = now + ACCESS_TOKEN_EXPIRES_IN)
  /\ [](\A t \in known \cup {AccessOf(k) : k \in known} :
          /\ now < t.exp => verifyToken(t) = "ok"
          /\ now >= t.exp => verifyToken(t) = "Token expired"
          /\ verifyToken(Tamper(t)) = "Invalid token"
          /\ verifyToken(Tamper(t)) # "Token expired")
  /\ [][res'.op = "authenticate" =>
          \A t \in known \cup {AccessOf(k) : k \in known} :
            /\ (res'.tokIn = t /\ now >= t.exp) =>
                 (res'.kind = "Unauthorized" /\ res'.msg = "Token expired"
                    /\ req' = NoIdentity)
            /\ (res'.tokIn = Tamper(t)) =>
                 (res'.kind = "Unauthorized" /\ res'.msg = "Invalid token"
                    /\ req' = NoIdentity)
            /\ (res'.tokIn = t /\ now < t.exp /\ res'.kind = "OK") =>
                 (req'.id = t.userId /\ req'.email = t.email)]_vars

(* an access token was presented in the second of its expiry and the     *)
(* gate refused it as expired, after accepting it one second earlier     *)
C21_ExpiredAtTheGate ==
  /\ res.op = "authenticate"
  /\ res.kind = "Unauthorized"
  /\ res.msg = "Token expired"
  /\ res.tokIn.sig
  /\ res.tokIn.exp = res.tokIn.iat + ACCESS_TOKEN_EXPIRES_IN
  /\ now = res.tokIn.exp

(* the permission ids associated with a role in a rolePermission table *)
PermissionsOf(rp, roleId) == {x[2] : x \in {y \in rp : y[1] = roleId}}

(* C22: after a successful updateRole(id, {permissionIds: S}) the        *)
(* permissions associated with role id are exactly S; a successful       *)
(* updateRole without permissionIds leaves them as they were; no other   *)
(* role's associations change in either case.                            *)
C22_PermissionSetReplaced ==
  [][(res'.op = "updateRole" /\ res'.kind = "OK") =>
       \A id \in RoleIds, data \in UpdateRoleInputs :
         updateRole(id, data) =>
           /\ data.setPerms =>
                PermissionsOf(rolePerms', id) = data.permissionIds
           /\ ~data.setPerms =>
                PermissionsOf(rolePerms', id) = PermissionsOf(rolePerms, id)
           /\ \A other \in RoleIds \ {id} :
                PermissionsOf(rolePerms', other) = PermissionsOf(rolePerms, other)]_vars

(* the seeded admin role had its four permissions replaced by one other *)
C22_AdminPermissionsReplaced ==
  /\ res.op = "updateRole"
  /\ res.kind = "OK"
  /\ res.roleId = 1
  /\ PermissionsOf(rolePerms, 1) = {2}
  /\ PermissionsOf(SeededRolePerms, 1) \cap {2} = {}
  /\ PermissionsOf(rolePerms, 2) = PermissionsOf(SeededRolePerms, 2)

(* C23: a seed run that follows a seed run changes no role, permission,  *)
(* role-permission association or user; a seed run creates no second     *)
(* role or permission of a name and no second admin user; and an admin   *)
(* user that exists ends every seed run with the role named "admin".     *)
C23_SeedIdempotent ==
  /\ [][(res.op = "seed" /\ res'.op = "seed") => UNCHANGED dbVars]_vars
  /\ [][res'.op = "seed" =>
          /\ \A r, q \in RoleIds :
               (roles'[r].exists /\ roles'[q].exists
                  /\ roles'[r].name = roles'[q].name) => r = q
          /\ \A r \in RoleIds : roles[r].exists => roles'[r] = roles[r]
          /\ \A u, v \in UserIds :
               (users'[u].exists /\ users'[v].exists
                  /\ users'[u].email = users'[v].email) => u = v
          /\ findByEmail(ADMIN_EMAIL) # 0 =>
               roles'[users'[findByEmail(ADMIN_EMAIL)].roleId].name = ROLE_ADMIN]_vars

(* the seed ran while the admin role was deactivated: it stopped with    *)
(* an error and the admin user still holds another role                  *)
C23_AdminLeftWithoutRole ==
  /\ res.op = "seed"
  /\ res.kind = "InternalError"
  /\ res.msg = MSG_NO_ADMIN_ROLE
  /\ findByEmail(ADMIN_EMAIL) # 0
  /\ roles[users[findByEmail(ADMIN_EMAIL)].roleId].name # ROLE_ADMIN
  /\ roleByName(roles, ROLE_ADMIN) # 0

(* two calls of Login or RefreshToken for one user overlapped and both   *)
(* returned *)
Raced(p, q) ==
  /\ p # q
  /\ calls[p].op \in {"login", "refresh"} /\ calls[p].returned
  /\ calls[q].op \in {"login", "refresh"} /\ calls[q].returned
  /\ calls[p].uid = calls[q].uid
  /\ q \in calls[p].peers /\ p \in calls[q].peers

(* C24: the refresh token a Login or RefreshToken call stores is the one *)
(* it issued, whatever was stored before; and when two such calls for    *)
(* one user overlapped and both returned, RefreshToken with the token of *)
(* the call that did not write last fails with Unauthorized.             *)
C24_LastWriteWins ==
  /\ [][\A p \in Procs :
          (calls[p].op \in {"login", "refresh"} /\ ~calls[p].returned
             /\ calls'[p].returned) =>
            users'[calls[p].uid].refreshToken = calls[p].refresh]_vars
  /\ [](\A p, q \in Procs : Raced(p, q) =>
          \E x \in {p, q} :
            refreshTokenResult(calls[x].refresh).kind = "Unauthorized")

(* two overlapping calls returned the same token, and it is redeemable *)
C24_BothTokensRedeemable ==
  \E p, q \in Procs :
    /\ Raced(p, q)
    /\ calls[p].refresh = calls[q].refresh
    /\ users[calls[p].uid].refreshToken = calls[p].refresh
    /\ refreshTokenResult(calls[q].refresh).kind = "OK"

(* C25: when the second write of Register, ResetPassword or              *)
(* ChangePassword fails, the call fails and nothing is undone: after a   *)
(* failed Register the user exists with no refresh token stored; after   *)
(* a failed ResetPassword or ChangePassword the new password hash is     *)
(* stored and the reset token cleared, while the refresh token that was  *)
(* stored is still stored and RefreshToken still accepts it (the row is  *)
(* compared with what the flow itself wrote when no other call wrote to  *)
(* it between the two writes).                                           *)
C25_NoRollback ==
  [][\A p \in Procs :
       (calls[p].pc = 2 /\ calls'[p].op = "idle" /\ findById(calls[p].uid) # 0
          /\ res'.kind = "InternalError") =>
         LET c == calls[p]
             stored == users[c.uid].refreshToken
         IN
         /\ users' = users
         /\ users'[c.uid].exists
         /\ c.op = "register" =>
              /\ users'[c.uid].email = c.email
              /\ users'[c.uid].password = c.password
              /\ users'[c.uid].refreshToken = NullToken
         /\ (/\ c.op \in {"reset", "change"}
             /\ users[c.uid] =
                  updatePassword([users EXCEPT ![c.uid] = c.before],
                                 c.uid, c.password)[c.uid]) =>
              /\ users'[c.uid].password = c.password
              /\ users'[c.uid].passwordResetToken = NullResetToken
              /\ users'[c.uid].refreshToken = c.before.refreshToken
              /\ stored = c.before.refreshToken
              /\ \A t \in known :
                   (t = stored /\ verifyToken(t) = "ok"
                      /\ users[c.uid].isActive) =>
                     refreshTokenResult(t)'.kind = "OK"]_vars

(* a ResetPassword lost its second write: the call failed, the password  *)
(* is the new one, and the session opened before it is still redeemable  *)
C25_PasswordChangedSessionKept ==
  /\ res.op = "reset"
  /\ res.kind = "InternalError"
  /\ findById(res.uid) # 0
  /\ users[res.uid].password = hashPassword(StrongPw)
  /\ users[res.uid].passwordResetToken = NullResetToken
  /\ res.resetIn \in consumed
  /\ users[res.uid].refreshToken \in known
  /\ refreshTokenResult(users[res.uid].refreshToken).kind = "OK"

(* C26: when a Logout, ResetPassword or ChangePassword completed while a  *)
(* RefreshToken call for the same user was in flight (the stored token   *)
(* the call had matched is null), then once that call returns and no     *)
(* other call is in flight the stored refresh token is still null, and   *)
(* the token the call issued is not redeemable.                          *)
C26_InvalidationSurvivesRefresh ==
  [][\A p \in Procs :
       (/\ calls[p].op = "refresh" /\ ~calls[p].returned
        /\ calls'[p].returned
        /\ users[calls[p].uid].refreshToken = NullToken
        /\ \A q \in Procs \ {p} : Free(q)) =>
         /\ users'[calls[p].uid].refreshToken = NullToken
         /\ refreshTokenResult(calls[p].refresh)'.kind # "OK"]_vars

(* the session was just invalidated by a Logout that completed while a   *)
(* RefreshToken call is past its checks and before its write             *)
C26_LogoutDuringRefresh ==
  /\ res.op = "logout"
  /\ res.kind = "OK"
  /\ \E p \in Procs :
       /\ calls[p].op = "refresh" /\ ~calls[p].returned
       /\ calls[p].uid = res.uid
       /\ users[res.uid].refreshToken = NullToken
       /\ \A q \in Procs \ {p} : Free(q)

(* C27: of the ResetPassword calls presenting one reset token at most one *)
(* succeeds: no two calls with the same token both return successfully,  *)
(* and a call whose token was consumed by another call's write fails     *)
(* with BadRequest and writes no password.                               *)
C27_OneResetPerToken ==
  /\ [](\A p, q \in Procs :
          (/\ p # q
           /\ calls[p].op = "reset" /\ calls[q].op = "reset"
           /\ calls[p].resetIn = calls[q].resetIn
           /\ calls[p].returned) => ~calls[q].returned)
  /\ [][\A p \in Procs :
          (/\ calls[p].op = "reset" /\ calls[p].pc = 1
           /\ calls[p].resetIn \in consumed
           /\ calls'[p] # calls[p]) =>
            /\ res'.kind = "BadRequest"
            /\ users' = users]_vars

(* two ResetPassword calls with the same token and different new         *)
(* passwords are both past the token lookup, neither has written         *)
C27_TwoCallsPastTheLookup ==
  \E p, q \in Procs :
    /\ p # q
    /\ calls[p].op = "reset" /\ calls[q].op = "reset"
    /\ calls[p].pc = 1 /\ calls[q].pc = 1
    /\ calls[p].resetIn = calls[q].resetIn
    /\ calls[p].password # calls[q].password
    /\ calls[p].resetIn \notin consumed

(* C28: a refresh token presented as the bearer credential is never      *)
(* authenticated: the gate answers with a failure and attaches no        *)
(* identity, before and after the session it belongs to has ended.       *)
C28_RefreshTokenNotABearer ==
  [][\A h \in HeaderInputs :
       (authenticate(h) /\ h.token \in known) =>
         /\ res'.kind # "OK"
         /\ ~res'.next
         /\ req' = NoIdentity]_vars

(* the gate has just been handed, as bearer, the refresh token of a user *)
(* whose session has ended (no refresh token is stored for them)         *)
C28_RefreshTokenAfterSessionEnd ==
  /\ res.op = "authenticate"
  /\ res.tokIn \in known
  /\ findById(res.tokIn.userId) # 0
  /\ users[res.tokIn.userId].refreshToken = NullToken
  /\ verifyToken(res.tokIn) = "ok"

(* C29: when two updateRole calls on one role have both returned, the    *)
(* role's permission set is exactly the set of one of them; and while a  *)
(* replacement is under way, userHasPermission answers true for a        *)
(* permission of the user's role that is in both the set the replacement *)
(* removed and the set it installs.                                      *)
C29_ReplacementIsAtomic ==
  /\ [](\A p, q \in Procs :
          (/\ p # q
           /\ calls[p].op = "updateRole" /\ calls[p].returned
           /\ calls[q].op = "updateRole" /\ calls[q].returned
           /\ calls[p].roleId = calls[q].roleId) =>
            PermissionsOf(rolePerms, calls[p].roleId)
              \in {calls[p].permissionIds, calls[q].permissionIds})
  /\ [][\A u \in UserIds, i \in PermIds :
          (/\ userHasPermissionQuery(u, PERMISSIONS[i])
           /\ findById(u) # 0
           /\ perms[i].isActive
           /\ \E p \in Procs :
                /\ calls[p].op = "updateRole" /\ calls[p].pc = 2
                /\ calls[p].roleId = users[u].roleId
                /\ i \in calls[p].old \cap calls[p].permissionIds
                /\ \A q \in Procs \ {p} : Free(q)) =>
            res'.next]_vars

(* two replacements of the admin role's permissions with different sets  *)
(* have both deleted the role's rows and neither has inserted its own    *)
C29_TwoReplacementsUnderWay ==
  \E p, q \in Procs :
    /\ p # q
    /\ calls[p].op = "updateRole" /\ calls[q].op = "updateRole"
    /\ calls[p].pc = 2 /\ calls[q].pc = 2
    /\ calls[p].roleId = calls[q].roleId
    /\ calls[p].permissionIds # calls[q].permissionIds
    /\ PermissionsOf(rolePerms, calls[p].roleId) = {}

(* C30: a Login, RefreshToken, ResetPassword or ChangePassword that is    *)
(* refused changes no user's password hash, stored refresh token, reset  *)
(* token or reset expiry, and every refresh token is answered by         *)
(* RefreshToken afterwards as it was before.                             *)
C30_FailureChangesNothing ==
  [][(res'.op \in {"login", "refresh", "reset", "change"}
        /\ res'.kind # "OK") =>
       /\ \A u \in UserIds :
            /\ users'[u].password = users[u].password
            /\ users'[u].refreshToken = users[u].refreshToken
            /\ users'[u].passwordResetToken = users[u].passwordResetToken
            /\ users'[u].passwordResetExpires = users[u].passwordResetExpires
       /\ \A t \in known : refreshTokenResult(t)' = refreshTokenResult(t)]_vars

(* a Login with the wrong password was refused while the user had a      *)
(* session, and the session's refresh token is still redeemable          *)
C30_SessionSurvivesFailedLogin ==
  /\ res.op = "login"
  /\ res.kind = "Unauthorized"
  /\ \E u \in UserIds :
       /\ users[u].exists
       /\ users[u].refreshToken \in known
       /\ refreshTokenResult(users[u].refreshToken).kind = "OK"

====
